---- MODULE Spec2Model ----
(***************************************************************************)
(* A model of typed-settings: path-addressed dictionaries, the merge        *)
(* engine, the file and environment loaders (both the loaders.py classes   *)
(* and the load_settings pipeline of _core.py) and the converters.          *)
(*                                                                         *)
(* Python strings are sequences of one-character strings, so that split,   *)
(* replace, upper/lower and rpartition are computed character by character. *)
(* Python values are records [t |-> type tag, v |-> payload]; a dict keeps  *)
(* its items in insertion order, as Python's dict does.                     *)
(***************************************************************************)
EXTENDS Integers, Sequences, FiniteSets, TLC

VARIABLES
    pc,               \* which operation has run
    options,          \* the OptionList handed to merge_settings
    settings,         \* Sequence[LoadedSettings] handed to merge_settings
    merged_settings,  \* result of merge_settings (or the exception it raised)
    fsys,             \* the file system: file name -> [state, doc]
    config_files,     \* the explicit file list handed to the loader
    environ,          \* os.environ: variable name -> string
    load_out,         \* outcome of a file load
    conv_in,          \* arguments of a converter call
    conv_out          \* its outcome

vars == <<pc, options, settings, merged_settings, fsys, config_files, environ,
          load_out, conv_in, conv_out>>

\* A value for the variables an operation does not use.
Idle == <<>>

(***************************************************************************)
(* Strings                                                                 *)
(***************************************************************************)

RECURSIVE SplitAcc(_, _, _, _)
SplitAcc(s, sep, cur, acc) ==
    IF s = <<>> THEN Append(acc, cur)
    ELSE IF Head(s) = sep THEN SplitAcc(Tail(s), sep, <<>>, Append(acc, cur))
    ELSE SplitAcc(Tail(s), sep, Append(cur, Head(s)), acc)

\* str.split(sep) for a one-character separator: "" splits into [""].
Split(s, sep) == SplitAcc(s, sep, <<>>, <<>>)

RECURSIVE ReplaceAll(_, _, _)
\* str.replace(old, new): every occurrence of the character old becomes the string new.
ReplaceAll(s, old, new) ==
    IF s = <<>> THEN <<>>
    ELSE (IF Head(s) = old THEN new ELSE <<Head(s)>>) \o ReplaceAll(Tail(s), old, new)

RECURSIVE Join(_, _)
\* sep.join(parts)
Join(parts, sep) ==
    IF parts = <<>> THEN <<>>
    ELSE IF Len(parts) = 1 THEN parts[1]
    ELSE parts[1] \o sep \o Join(Tail(parts), sep)

\* str.rpartition(sep): <<head, sep, tail>> around the last sep, <<"", "", s>> without one.
RPartition(s, sep) ==
    IF \E i \in 1..Len(s) : s[i] = sep
    THEN LET i == CHOOSE j \in 1..Len(s) : s[j] = sep /\ \A k \in (j + 1)..Len(s) : s[k] # sep
         IN <<SubSeq(s, 1, i - 1), <<sep>>, SubSeq(s, i + 1, Len(s))>>
    ELSE <<<<>>, <<>>, s>>

LowerAlphabet == <<"a", "b", "c", "d", "e", "f", "g", "h", "i", "j", "k", "l", "m",
                   "n", "o", "p", "q", "r", "s", "t", "u", "v", "w", "x", "y", "z">>
UpperAlphabet == <<"A", "B", "C", "D", "E", "F", "G", "H", "I", "J", "K", "L", "M",
                   "N", "O", "P", "Q", "R", "S", "T", "U", "V", "W", "X", "Y", "Z">>

UpperChar(c) ==
    IF \E i \in 1..Len(LowerAlphabet) : LowerAlphabet[i] = c
    THEN UpperAlphabet[CHOOSE i \in 1..Len(LowerAlphabet) : LowerAlphabet[i] = c]
    ELSE c

LowerChar(c) ==
    IF \E i \in 1..Len(UpperAlphabet) : UpperAlphabet[i] = c
    THEN LowerAlphabet[CHOOSE i \in 1..Len(UpperAlphabet) : UpperAlphabet[i] = c]
    ELSE c

\* str.upper() and str.lower()
Upper(s) == [i \in 1..Len(s) |-> UpperChar(s[i])]
Lower(s) == [i \in 1..Len(s) |-> LowerChar(s[i])]

(***************************************************************************)
(* Python values and exceptions                                            *)
(***************************************************************************)

PyNone == [t |-> "NoneType", v |-> <<>>]
PyBool(b) == [t |-> "bool", v |-> IF b THEN 1 ELSE 0]
PyInt(n) == [t |-> "int", v |-> n]
\* A float is held in tenths: PyFloat(32) is 3.2.
PyFloat(tenths) == [t |-> "float", v |-> tenths]
PyStr(s) == [t |-> "str", v |-> s]
PyList(xs) == [t |-> "list", v |-> xs]
\* A dict is the sequence of its <<key, value>> items in insertion order.
PyDict(items) == [t |-> "dict", v |-> items]
EmptyDict == PyDict(<<>>)

\* The outcome of a call: a returned value, or a raised exception.
Ok(val) == [exc |-> "none", val |-> val]
Raise(e) == [exc |-> e, val |-> PyNone]

IsDict(x) == x.t = "dict"
DictKeys(d) == {d.v[i][1] : i \in 1..Len(d.v)}
DictHas(d, k) == \E i \in 1..Len(d.v) : d.v[i][1] = k
DictGet(d, k) == d.v[CHOOSE i \in 1..Len(d.v) : d.v[i][1] = k][2]
\* d[k] = val: an existing key keeps its place, a new key goes last.
DictSet(d, k, val) ==
    IF DictHas(d, k)
    THEN PyDict([i \in 1..Len(d.v) |-> IF d.v[i][1] = k THEN <<k, val>> ELSE d.v[i]])
    ELSE PyDict(Append(d.v, <<k, val>>))

RECURSIVE PyEq(_, _)
\* Python's == on the modelled values: dicts compare without regard to item order.
PyEq(a, b) ==
    IF IsDict(a) /\ IsDict(b)
    THEN /\ DictKeys(a) = DictKeys(b)
         /\ \A k \in DictKeys(a) : PyEq(DictGet(a, k), DictGet(b, k))
    ELSE a = b

(***************************************************************************)
(* dict_utils.py: get_path, set_path                                       *)
(***************************************************************************)

RECURSIVE GetParts(_, _)
GetParts(dct, parts) ==
    IF parts = <<>> THEN Ok(dct)
    ELSE IF ~IsDict(dct) THEN Raise("TypeError")
    ELSE IF ~DictHas(dct, Head(parts)) THEN Raise("KeyError")
    ELSE GetParts(DictGet(dct, Head(parts)), Tail(parts))

\* for part in path.split("."): dct = dct[part]
get_path(dct, path) == GetParts(dct, Split(path, "."))

RECURSIVE SetParts(_, _, _)
SetParts(dct, parts, val) ==
    IF ~IsDict(dct)
    THEN Raise(IF Len(parts) = 1 THEN "TypeError" ELSE "AttributeError")
    ELSE IF Len(parts) = 1 THEN Ok(DictSet(dct, parts[1], val))
    ELSE LET sub == IF DictHas(dct, Head(parts)) THEN DictGet(dct, Head(parts))
                    ELSE EmptyDict
             r == SetParts(sub, Tail(parts), val)
         IN IF r.exc # "none" THEN r ELSE Ok(DictSet(dct, Head(parts), r.val))

\* A plausible slip: a missing intermediate dict is not created.
SetPathNoCreate(dct, path, val) ==
    LET parts == Split(path, ".")
        parent == GetParts(dct, SubSeq(parts, 1, Len(parts) - 1))
    IN IF parent.exc # "none" THEN parent ELSE SetParts(dct, parts, val)

\* *parts, key = path.split("."); dct = dct.setdefault(part, {}) ...; dct[key] = val
set_path(dct, path, val) == SetParts(dct, Split(path, "."), val)

(***************************************************************************)
(* dict_utils.py: merge_settings                                           *)
(***************************************************************************)

OptionInfo(path) == [path |-> path]
LoaderMeta(name) == [name |-> name]
LoadedSettings(dct, meta) == [settings |-> dct, meta |-> meta]
LoadedValue(value, meta) == [value |-> value, meta |-> meta]

\* A plausible slip: the loaders are scanned lowest priority first.
ReversedForward(seq) == seq

\* settings[::-1]
Reversed(seq) == [i \in 1..Len(seq) |-> seq[Len(seq) + 1 - i]]

RECURSIVE FirstLoaded(_, _)
\* The inner loop of merge_settings: the first loader of rsettings whose dict has
\* the path; exc "KeyError" when none has, any other exception as get_path raised it.
FirstLoaded(rsettings, path) ==
    IF rsettings = <<>> THEN Raise("KeyError")
    ELSE LET r == get_path(Head(rsettings).settings, path)
         IN IF r.exc = "KeyError" THEN FirstLoaded(Tail(rsettings), path)
            ELSE IF r.exc # "none" THEN r
            ELSE Ok(LoadedValue(r.val, Head(rsettings).meta))

RECURSIVE MergeOptions(_, _, _)
\* The outer loop of merge_settings over the option list.
MergeOptions(opts, rsettings, merged) ==
    IF opts = <<>> THEN Ok(merged)
    ELSE LET r == FirstLoaded(rsettings, Head(opts).path)
         IN IF r.exc = "KeyError" THEN MergeOptions(Tail(opts), rsettings, merged)
            ELSE IF r.exc # "none" THEN r
            ELSE MergeOptions(Tail(opts), rsettings,
                              DictSet(merged, Head(opts).path, r.val))

merge_settings(opts, loaded) == MergeOptions(opts, Reversed(loaded), EmptyDict)

(***************************************************************************)
(* Inputs of the merge engine                                              *)
(***************************************************************************)

\* The most loaders one merge is given.
MaxLoaders == 2

K_a == <<"a">>
K_b == <<"b">>
K_x == <<"x">>
K_y == <<"y">>
K_p == <<"p">>
K_q == <<"q">>
K_z == <<"z">>
K_c == <<"c">>
P_a == <<"a">>
P_bx == <<"b", ".", "x">>
P_by == <<"b", ".", "y">>
P_c == <<"c">>

\* Option lists as deep_options builds them: distinct paths, none a prefix of another.
OptionLists ==
    { <<OptionInfo(P_a), OptionInfo(P_bx), OptionInfo(P_by), OptionInfo(P_c)>>,
      <<OptionInfo(P_by), OptionInfo(P_a)>> }

\* Values one loader may hold at "a": a scalar, lists, dicts (a Dict-typed option).
ListP == PyList(<<PyDict(<< <<K_p, PyInt(1)>> >>)>>)
ListQ == PyList(<<PyDict(<< <<K_q, PyInt(2)>> >>)>>)
DictP == PyDict(<< <<K_p, PyInt(1)>> >>)
DictQ == PyDict(<< <<K_q, PyInt(2)>> >>)
ValuesA == {PyInt(1), ListP, ListQ, DictP, DictQ}

Items(k, vals) == {<<>>} \cup {<< <<k, val>> >> : val \in vals}

\* The nested dicts a loader returns: values sit at option paths only ("z" is a key
\* of no option), so no scalar lies where an option path descends.
LoaderDicts ==
    { PyDict(ia \o (IF ix \o iy = <<>> THEN <<>> ELSE << <<K_b, PyDict(ix \o iy)>> >>)) :
        ia \in Items(K_a, ValuesA), ix \in Items(K_x, {PyInt(1)}),
        iy \in Items(K_y, {PyInt(3)}) }
    \cup { PyDict(<< <<K_z, PyInt(9)>>, <<K_a, PyInt(2)>> >>) }

RECURSIVE SeqsUpTo(_, _)
\* The sequences over S of length 1..n.
SeqsUpTo(S, n) ==
    IF n = 0 THEN {}
    ELSE LET shorter == SeqsUpTo(S, n - 1)
         IN {<<x>> : x \in S} \cup {Append(sq, x) : sq \in shorter, x \in S}

MetaOf(i) == LoaderMeta(<<"l", i>>)

LoadedSequences ==
    { [i \in 1..Len(ds) |-> LoadedSettings(ds[i], MetaOf(i))] :
        ds \in SeqsUpTo(LoaderDicts, MaxLoaders) }

InitMerge ==
    /\ pc = "start"
    /\ options \in OptionLists
    /\ settings \in LoadedSequences
    /\ merged_settings = Idle
    /\ fsys = Idle /\ config_files = Idle /\ environ = Idle /\ load_out = Idle
    /\ conv_in = Idle /\ conv_out = Idle

MergeSettings ==
    /\ pc = "start"
    /\ merged_settings' = merge_settings(options, settings)
    /\ pc' = "merged"
    /\ UNCHANGED <<options, settings, fsys, config_files, environ, load_out,
                   conv_in, conv_out>>

NextMerge == MergeSettings

SpecMerge == InitMerge /\ [][NextMerge]_vars

\* The loaders of the sequence that hold a value at path (get_path succeeds).
Holders(path) == {i \in 1..Len(settings) : get_path(settings[i].settings, path).exc = "none"}
Last(S) == CHOOSE i \in S : \A j \in S : j <= i

\* C1: merge_settings maps every option path to the (value, meta) of the last
\* loader of the sequence that holds a value at it, the value taken unchanged, and
\* leaves out a path no loader holds.
C1_LastLoaderWins ==
    pc = "merged" =>
        /\ merged_settings.exc = "none"
        /\ \A i \in 1..Len(options) :
              LET path == options[i].path
                  m == merged_settings.val
              IN IF Holders(path) = {}
                 THEN ~DictHas(m, path)
                 ELSE /\ DictHas(m, path)
                      /\ DictGet(m, path) =
                            LoadedValue(get_path(settings[Last(Holders(path))].settings,
                                                 path).val,
                                        settings[Last(Holders(path))].meta)
        /\ DictKeys(merged_settings.val) \subseteq {options[i].path : i \in 1..Len(options)}

\* Two loaders hold different dicts (or lists) at "a" and the merge has run.
C1_Witness ==
    /\ pc = "merged"
    /\ Len(settings) = 2
    /\ get_path(settings[1].settings, P_a) = Ok(DictP)
    /\ get_path(settings[2].settings, P_a) = Ok(DictQ)
    /\ DictGet(merged_settings.val, P_a) = LoadedValue(DictQ, MetaOf(2))

(***************************************************************************)
(* _merge_dicts(d1, d2), as loaders.py:224 and _core.py:191,232 call it and *)
(* tests/test_load_settings.py::test_dict_merge pins it: dicts are merged   *)
(* recursively, every other value of d2 overrides.  The test does not say   *)
(* what happens when d1 holds a dict and d2 does not at the same key; the   *)
(* inputs below never produce that case.                                    *)
(***************************************************************************)

RECURSIVE MergeItems(_, _)
MergeItems(d1, items) ==
    IF items = <<>> THEN Ok(d1)
    ELSE LET k == Head(items)[1]
             val == Head(items)[2]
         IN IF DictHas(d1, k) /\ IsDict(DictGet(d1, k))
            THEN IF ~IsDict(val) THEN Raise("AttributeError")
                 ELSE LET r == MergeItems(DictGet(d1, k), val.v)
                      IN IF r.exc # "none" THEN r
                         ELSE MergeItems(DictSet(d1, k, r.val), Tail(items))
            ELSE MergeItems(DictSet(d1, k, val), Tail(items))

_merge_dicts(d1, d2) == MergeItems(d1, d2.v)

(***************************************************************************)
(* loaders.py: clean_settings, TomlFormat, FileLoader                      *)
(***************************************************************************)

\* The outcome of loading: exc and val as for Ok/Raise, invalid the option paths
\* an InvalidOptionsError names.
Loaded(exc, val, invalid) == [exc |-> exc, val |-> val, invalid |-> invalid]

RECURSIVE IterDict(_, _, _, _)
\* clean_settings._iter_dict over the items of one dict; acc is (cleaned, invalid_paths).
IterDict(items, prefix, valid_paths, acc) ==
    IF items = <<>> \/ acc.exc # "none" THEN acc
    ELSE LET key == ReplaceAll(Head(items)[1], "-", <<"_">>)
             val == Head(items)[2]
             path == prefix \o key
         IN IF path \in valid_paths
            THEN LET r == set_path(acc.val, path, val)
                 IN IterDict(Tail(items), prefix, valid_paths,
                             Loaded(r.exc, r.val, acc.invalid))
            ELSE IF IsDict(val)
            THEN IterDict(Tail(items), prefix, valid_paths,
                          IterDict(val.v, path \o <<".">>, valid_paths, acc))
            ELSE IterDict(Tail(items), prefix, valid_paths,
                          Loaded(acc.exc, acc.val, Append(acc.invalid, path)))

clean_settings(dct, opts) ==
    LET valid_paths == {opts[i].path : i \in 1..Len(opts)}
        r == IterDict(dct.v, <<>>, valid_paths, Loaded("none", EmptyDict, <<>>))
    IN IF r.exc # "none" THEN r
       ELSE IF r.invalid # <<>> THEN Loaded("InvalidOptionsError", PyNone, r.invalid)
       ELSE r

RECURSIVE Descend(_, _)
\* for s in sections: settings = settings[s], a missing section giving {}.
Descend(dct, sections) ==
    IF sections = <<>> THEN Ok(dct)
    ELSE IF ~IsDict(dct) THEN Raise("TypeError")
    ELSE IF ~DictHas(dct, Head(sections)) THEN Ok(EmptyDict)
    ELSE Descend(DictGet(dct, Head(sections)), Tail(sections))

\* The file system: path -> [state, doc]; state is "missing", "garbled" (a file
\* that is no valid TOML) or "ok" with doc the parsed document.
IsFile(fs, path) == path \in DOMAIN fs /\ fs[path].state # "missing"

\* A plausible slip: a file that cannot be parsed is passed over like a missing
\* optional file.
TomlFormatLenient(section, path, fs) ==
    IF ~IsFile(fs, path) THEN Raise("ConfigFileNotFoundError")
    ELSE IF fs[path].state # "ok" THEN Ok(EmptyDict)
    ELSE Descend(fs[path].doc, Split(section, "."))

\* TomlFormat(section).__call__(path)
TomlFormat(section, path, fs) ==
    IF ~IsFile(fs, path) THEN Raise("ConfigFileNotFoundError")
    ELSE IF fs[path].state # "ok" THEN Raise("ConfigFileLoadError")
    ELSE Descend(fs[path].doc, Split(section, "."))

\* os.getenv(name, "")
GetEnv(env, name) == IF name \in DOMAIN env THEN env[name] ELSE <<>>

LogRecord(level, what, arg) == [level |-> level, what |-> what, arg |-> arg]

\* The except FileNotFoundError branch of FileLoader._get_config_filenames.
ResolveMissing(acc, from_envvar, is_mandatory, fname) ==
    IF is_mandatory
    THEN [acc EXCEPT !.exc = "FileNotFoundError",
                     !.log = Append(acc.log, LogRecord("ERROR", "mandatory not found", fname))]
    ELSE [acc EXCEPT !.log = Append(acc.log,
            LogRecord(IF from_envvar THEN "WARNING" ELSE "INFO", "not found", fname))]

RECURSIVE ResolveCandidates(_, _, _)
\* The loop of FileLoader._get_config_filenames over (from_envvar, fname).
ResolveCandidates(candidates, fs, acc) ==
    IF candidates = <<>> \/ acc.exc # "none" THEN acc
    ELSE LET from_envvar == Head(candidates)[1]
             part == RPartition(Head(candidates)[2], "!")
             fname == part[3]
             is_mandatory == part[2] = <<"!">>
         IN IF fname = <<>> THEN ResolveCandidates(Tail(candidates), fs, acc)
            ELSE IF ~IsFile(fs, fname)
            THEN ResolveCandidates(Tail(candidates), fs,
                                   ResolveMissing(acc, from_envvar, is_mandatory, fname))
            ELSE ResolveCandidates(Tail(candidates), fs,
                    [acc EXCEPT !.paths = Append(acc.paths, fname),
                                !.log = Append(acc.log, LogRecord("DEBUG", "loading", fname))])

\* FileLoader._get_config_filenames(files, env_var); env_var <<>> stands for None.
FileLoader_get_config_filenames(files, env_var, env, fs) ==
    LET fromvar == IF env_var # <<>>
                   THEN LET names == Split(GetEnv(env, env_var), ":")
                        IN [i \in 1..Len(names) |-> <<TRUE, names[i]>>]
                   ELSE <<>>
        candidates == [i \in 1..Len(files) |-> <<FALSE, files[i]>>] \o fromvar
        first == IF env_var # <<>> THEN LogRecord("DEBUG", "env var for config files", env_var)
                 ELSE LogRecord("DEBUG", "env var not set", <<>>)
    IN ResolveCandidates(candidates, fs, [exc |-> "none", paths |-> <<>>, log |-> <<first>>])

\* fnmatch(name, pattern) for the patterns "*" and a literal name.
FnMatch(name, pattern) == pattern = <<"*">> \/ pattern = name

RECURSIVE FileLoader_load_file(_, _, _, _)
\* FileLoader._load_file(path): formats is the sequence of (pattern, section) of the
\* TomlFormat instances.
FileLoader_load_file(path, formats, opts, fs) ==
    IF formats = <<>> THEN Loaded("UnknownFormatError", PyNone, <<>>)
    ELSE IF FnMatch(path, Head(formats)[1])
    THEN LET r == TomlFormat(Head(formats)[2], path, fs)
         IN IF r.exc # "none" THEN Loaded(r.exc, PyNone, <<>>)
            ELSE clean_settings(r.val, opts)
    ELSE FileLoader_load_file(path, Tail(formats), opts, fs)

RECURSIVE FileLoaderLoop(_, _, _, _, _)
\* for path in paths: settings = self._load_file(path); _merge_dicts(merged, settings).
\* acc.parsed lists the files a format loader has parsed so far.
FileLoaderLoop(paths, formats, opts, fs, acc) ==
    IF paths = <<>> \/ acc.exc # "none" THEN acc
    ELSE LET r == FileLoader_load_file(Head(paths), formats, opts, fs)
             parsed == IF r.exc \in {"none", "InvalidOptionsError"}
                       THEN Append(acc.parsed, Head(paths)) ELSE acc.parsed
         IN IF r.exc # "none"
            THEN [acc EXCEPT !.exc = r.exc, !.invalid = r.invalid, !.parsed = parsed]
            ELSE LET m == _merge_dicts(acc.val, r.val)
                 IN FileLoaderLoop(Tail(paths), formats, opts, fs,
                        [acc EXCEPT !.exc = m.exc, !.val = m.val, !.parsed = parsed])

\* FileLoader(formats, files, env_var).__call__(settings_cls, options)
FileLoader_call(formats, files, env_var, opts, env, fs) ==
    LET g == FileLoader_get_config_filenames(files, env_var, env, fs)
        start == [op |-> "FileLoader", exc |-> g.exc, val |-> EmptyDict, invalid |-> <<>>,
                  parsed |-> <<>>, paths |-> g.paths, log |-> g.log, instance |-> PyNone]
    IN FileLoaderLoop(g.paths, formats, opts, fs, start)

(***************************************************************************)
(* _core.py: load_settings and its helpers                                 *)
(***************************************************************************)

RECURSIVE RenameItems(_, _)
\* _rename_dict_keys over the items of d, result being the dict built so far
RenameItems(items, result) ==
    IF items = <<>> THEN result
    ELSE LET k == Head(items)[1]
             val == Head(items)[2]
             w == IF IsDict(val) THEN RenameItems(val.v, EmptyDict) ELSE val
         IN RenameItems(Tail(items), DictSet(result, ReplaceAll(k, "-", <<"_">>), w))

_rename_dict_keys(d) == RenameItems(d.v, EmptyDict)

RECURSIVE CleanFields(_, _, _)
\* The loop of _clean_settings over fields: an entry of settings that belongs to no
\* field is not copied.
CleanFields(fields, dct, cleaned) ==
    IF fields = <<>> THEN Ok(cleaned)
    ELSE LET g == get_path(dct, fields[1].path)
         IN IF g.exc = "KeyError" THEN CleanFields(Tail(fields), dct, cleaned)
            ELSE IF g.exc # "none" THEN g
            ELSE LET r == set_path(cleaned, fields[1].path, g.val)
                 IN IF r.exc # "none" THEN r
                    ELSE CleanFields(Tail(fields), dct, r.val)

_clean_settings(fields, dct) == CleanFields(fields, dct, EmptyDict)

\* _load_toml(fields, path, section): path.open() raises for a missing file.  A
\* missing section gives {}, which is also what cleaning {} gives.
_load_toml(fields, path, section, fs) ==
    IF path = <<>> THEN Raise("IsADirectoryError")
    ELSE IF ~IsFile(fs, path) THEN Raise("FileNotFoundError")
    ELSE IF fs[path].state # "ok" THEN Raise("TomlDecodeError")
    ELSE LET d == Descend(fs[path].doc, Split(section, "."))
         IN IF d.exc # "none" THEN d
            ELSE _clean_settings(fields, _rename_dict_keys(d.val))

RECURSIVE CoreCandidates(_, _)
\* The loop of _core._get_config_filenames: mandatory files are always added,
\* optional ones only if they exist.
CoreCandidates(candidates, fs) ==
    IF candidates = <<>> THEN <<>>
    ELSE LET f == Head(candidates)
             rest == CoreCandidates(Tail(candidates), fs)
         IN IF f # <<>> /\ f[1] = "!" THEN <<Tail(f)>> \o rest
            ELSE IF IsFile(fs, f) THEN <<f>> \o rest
            ELSE rest

_get_config_filenames(files, config_files_var, env, fs) ==
    CoreCandidates(files \o (IF config_files_var # <<>>
                             THEN Split(GetEnv(env, config_files_var), ":")
                             ELSE <<>>), fs)

RECURSIVE FromTomlLoop(_, _, _, _, _)
\* for path in paths: toml_settings = _load_toml(...); _merge_dicts(settings, toml_settings)
FromTomlLoop(paths, fields, section, fs, acc) ==
    IF paths = <<>> \/ acc.exc # "none" THEN acc
    ELSE LET r == _load_toml(fields, Head(paths), section, fs)
         IN IF r.exc # "none" THEN [acc EXCEPT !.exc = r.exc]
            ELSE LET m == _merge_dicts(acc.val, r.val)
                 IN FromTomlLoop(Tail(paths), fields, section, fs,
                        [acc EXCEPT !.exc = m.exc, !.val = m.val,
                                    !.parsed = Append(acc.parsed, Head(paths))])

\* _from_toml with section = appname and var_name = APPNAME_SETTINGS (both AUTO)
_from_toml(fields, appname, files, env, fs) ==
    LET var_name == Upper(appname) \o <<"_", "S", "E", "T", "T", "I", "N", "G", "S">>
        paths == _get_config_filenames(files, var_name, env, fs)
    IN FromTomlLoop(paths, fields, appname, fs,
            [op |-> "load_settings", exc |-> "none", val |-> EmptyDict, invalid |-> <<>>,
             parsed |-> <<>>, paths |-> paths, log |-> <<>>, instance |-> PyNone])

\* A plausible slip: the "." of a nested path stays in the name.
VarNameDotted(prefix, path) == prefix \o Upper(path)

\* The name of the environment variable of an option: prefix + PATH with "." as "_".
VarName(prefix, path) == prefix \o ReplaceAll(Upper(path), ".", <<"_">>)

RECURSIVE FromEnvLoop(_, _, _, _)
FromEnvLoop(fields, prefix, env, values) ==
    IF fields = <<>> THEN Ok(values)
    ELSE LET varname == VarName(prefix, fields[1].path)
         IN IF varname \in DOMAIN env
            THEN LET r == set_path(values, fields[1].path, PyStr(env[varname]))
                 IN IF r.exc # "none" THEN r
                    ELSE FromEnvLoop(Tail(fields), prefix, env, r.val)
            ELSE FromEnvLoop(Tail(fields), prefix, env, values)

\* _from_env with prefix = APPNAME_ (AUTO)
_from_env(fields, appname, env) ==
    FromEnvLoop(fields, Upper(appname) \o <<"_">>, env, EmptyDict)

\* EnvLoader(prefix).__call__(settings_cls, options)
EnvLoader_call(prefix, opts, env) == FromEnvLoop(opts, prefix, env, EmptyDict)

\* _load_settings: the settings of the files, then those of the environment.
_load_settings(fields, appname, files, env, fs) ==
    LET t == _from_toml(fields, appname, files, env, fs)
        e == _from_env(fields, appname, env)
    IN IF t.exc # "none" THEN t
       ELSE IF e.exc # "none" THEN [t EXCEPT !.exc = e.exc]
       ELSE LET m == _merge_dicts(t.val, e.val)
            IN [t EXCEPT !.exc = m.exc, !.val = m.val]

\* attr.NOTHING: the default of a field that has none.
NOTHING == [t |-> "NOTHING", v |-> <<>>]

\* An entry of _deep_fields(settings_cls): the path of a field and its default.
FieldInfo(path, default) == [path |-> path, default |-> default]

RECURSIVE InitFields(_, _, _)
\* settings_cls(**settings), nested classes included: a field takes the loaded value,
\* else its default; a field with neither is a missing argument.
InitFields(fields, dct, instance) ==
    IF fields = <<>> THEN Ok(instance)
    ELSE LET g == get_path(dct, fields[1].path)
             val == IF g.exc = "none" THEN g.val ELSE fields[1].default
         IN IF val.t = "NOTHING" THEN Raise("TypeError")
            ELSE LET r == set_path(instance, fields[1].path, val)
                 IN IF r.exc # "none" THEN r
                    ELSE InitFields(Tail(fields), dct, r.val)

\* load_settings(settings_cls, appname, config_files)
load_settings(fields, appname, files, env, fs) ==
    LET s == _load_settings(fields, appname, files, env, fs)
    IN IF s.exc # "none" THEN s
       ELSE LET c == InitFields(fields, s.val, EmptyDict)
            IN [s EXCEPT !.exc = c.exc, !.instance = c.val]

(***************************************************************************)
(* Inputs of loading: a settings class, config files, the environment      *)
(***************************************************************************)

\* The most entries config_files is given.
MaxFiles == 2

AppName == <<"t">>
SettingsVar == <<"T", "_", "S", "E", "T", "T", "I", "N", "G", "S">>
UrlVar == <<"T", "_", "U", "R", "L">>
F_f == <<"f">>
F_g == <<"g">>
K_url == <<"u", "r", "l">>
K_host == <<"h", "o", "s", "t">>
K_port == <<"p", "o", "r", "t">>
K_opts == <<"o", "p", "t", "s">>
K_tags == <<"t", "a", "g", "s">>
K_spam == <<"s", "p", "a", "m">>
K_eggs == <<"e", "g", "g", "s">>
K_bogus == <<"b", "o", "g", "u", "s">>
P_host_port == K_host \o <<".">> \o K_port
P_host_eggs == K_host \o <<".">> \o K_eggs

\* class Host: port: int = 0
\* class Settings: url: str; host: Host; opts: dict = {}; tags: list = []
SettingsFields ==
    << FieldInfo(K_url, NOTHING), FieldInfo(P_host_port, PyInt(0)),
       FieldInfo(K_opts, EmptyDict), FieldInfo(K_tags, PyList(<<>>)) >>

InSection(items) == PyDict(<< <<AppName, PyDict(items)>> >>)

Doc1 == InSection(<< <<K_url, PyStr(<<"u", "1">>)>>,
                     <<K_host, PyDict(<< <<K_port, PyInt(1)>> >>)>> >>)
Doc2 == InSection(<< <<K_host, PyDict(<< <<K_port, PyInt(2)>> >>)>>,
                     <<K_opts, DictP>>, <<K_tags, PyList(<<PyInt(1)>>)>> >>)
Doc3 == InSection(<< <<K_url, PyStr(<<"u", "3">>)>>, <<K_opts, DictQ>>,
                     <<K_tags, PyList(<<PyInt(2)>>)>> >>)
\* Keys of no option: spam and host.eggs.
Doc4 == InSection(<< <<K_url, PyStr(<<"u", "4">>)>>, <<K_spam, PyInt(23)>>,
                     <<K_host, PyDict(<< <<K_eggs, PyInt(42)>> >>)>> >>)
\* A key of no option whose value is an empty table.
Doc5 == InSection(<< <<K_url, PyStr(<<"u", "5">>)>>, <<K_bogus, EmptyDict>> >>)
\* A document without the application's section.
Doc6 == PyDict(<< <<K_spam, PyDict(<< <<K_url, PyStr(<<"u", "6">>)>> >>)>> >>)

FileStates ==
    {[state |-> "missing", doc |-> PyNone], [state |-> "garbled", doc |-> PyNone]}
    \cup {[state |-> "ok", doc |-> d] : d \in {Doc1, Doc2, Doc3, Doc4, Doc5, Doc6}}

Mandatory(fname) == <<"!">> \o fname

RECURSIVE SeqsTo(_, _)
\* The sequences over S of length 0..n.
SeqsTo(S, n) ==
    IF n = 0 THEN {<<>>}
    ELSE LET shorter == SeqsTo(S, n - 1)
         IN shorter \cup {Append(sq, x) : sq \in {t \in shorter : Len(t) = n - 1}, x \in S}

ConfigFileLists == SeqsTo({F_f, F_g, Mandatory(F_f), Mandatory(F_g)}, MaxFiles)

\* os.environ: T_SETTINGS unset or naming files, T_URL unset or set.
Environments ==
    { [n \in ns \cup nu |-> IF n = SettingsVar THEN sv ELSE <<"e">>] :
        ns \in {{}, {SettingsVar}}, nu \in {{}, {UrlVar}},
        sv \in {F_g, Mandatory(F_f)} }

InitLoad ==
    /\ pc = "start"
    /\ options = SettingsFields
    /\ fsys \in [{F_f, F_g} -> FileStates]
    /\ config_files \in ConfigFileLists
    /\ environ \in Environments
    /\ load_out = Idle
    /\ settings = Idle /\ merged_settings = Idle
    /\ conv_in = Idle /\ conv_out = Idle

\* FileLoader({"*": TomlFormat("t")}, config_files, "T_SETTINGS")(Settings, options)
FileLoaderCall ==
    /\ pc = "start"
    /\ load_out' = FileLoader_call(<< <<<<"*">>, AppName>> >>, config_files, SettingsVar,
                                   options, environ, fsys)
    /\ pc' = "done"
    /\ UNCHANGED <<options, settings, merged_settings, fsys, config_files, environ,
                   conv_in, conv_out>>

\* load_settings(Settings, "t", config_files)
LoadSettings ==
    /\ pc = "start"
    /\ load_out' = load_settings(options, AppName, config_files, environ, fsys)
    /\ pc' = "done"
    /\ UNCHANGED <<options, settings, merged_settings, fsys, config_files, environ,
                   conv_in, conv_out>>

NextLoad == FileLoaderCall \/ LoadSettings

SpecLoad == InitLoad /\ [][NextLoad]_vars

(***************************************************************************)
(* What the inputs of a load say, read off the inputs alone                *)
(***************************************************************************)

\* The candidates in the order of their precedence: config_files, then the names
\* in T_SETTINGS.
Candidates ==
    config_files \o (IF SettingsVar \in DOMAIN environ
                     THEN Split(environ[SettingsVar], ":") ELSE <<>>)

IsMandatory(c) == c # <<>> /\ Head(c) = "!"
NameOf(c) == IF IsMandatory(c) THEN Tail(c) ELSE c

MissingMandatory ==
    \E i \in 1..Len(Candidates) :
        IsMandatory(Candidates[i]) /\ ~IsFile(fsys, NameOf(Candidates[i]))

ExistingFile(c) == IsFile(fsys, NameOf(c))

\* The files the load reads, lowest precedence first.
FileSources ==
    LET found == SelectSeq(Candidates, ExistingFile)
    IN [i \in 1..Len(found) |-> NameOf(found[i])]

\* The application's section of an existing, valid file.
SectionOf(fname) ==
    IF DictHas(fsys[fname].doc, AppName) THEN DictGet(fsys[fname].doc, AppName)
    ELSE EmptyDict

OptionPaths == {options[i].path : i \in 1..Len(options)}

RECURSIVE UnknownIn(_, _)
\* The dotted paths of the keys under prefix that belong to no option.
UnknownIn(items, prefix) ==
    IF items = <<>> THEN {}
    ELSE LET path == prefix \o ReplaceAll(Head(items)[1], "-", <<"_">>)
             val == Head(items)[2]
             rest == UnknownIn(Tail(items), prefix)
         IN IF path \in OptionPaths THEN rest
            ELSE IF IsDict(val) /\ val.v # <<>>
            THEN UnknownIn(val.v, path \o <<".">>) \cup rest
            ELSE {path} \cup rest

\* The positions in files whose section sets the option at path.
Defining(files, path) ==
    {i \in 1..Len(files) : get_path(SectionOf(files[i]), path).exc = "none"}

\* The value of the highest file of files that sets path.
FileValue(files, path) == get_path(SectionOf(files[Last(Defining(files, path))]), path).val

\* The value the precedence order gives a field: its environment variable, else
\* the last file that sets it, else its default.
Resolved(field) ==
    IF VarName(<<"T", "_">>, field.path) \in DOMAIN environ
    THEN PyStr(environ[VarName(<<"T", "_">>, field.path)])
    ELSE IF Defining(FileSources, field.path) # {} THEN FileValue(FileSources, field.path)
    ELSE field.default

\* C2: load_settings resolves every option on its own from the highest source
\* that defines it: default, config_files in order, the files of T_SETTINGS in
\* order, the option's environment variable.
C2_Precedence ==
    (pc = "done" /\ load_out.op = "load_settings" /\ load_out.exc = "none") =>
        \A i \in 1..Len(options) :
            get_path(load_out.instance, options[i].path) = Ok(Resolved(options[i]))

\* C3: a parsed file whose section holds a key of no option makes the load fail
\* with an invalid-options error that names every such path of that file.
C3_UnknownKeysRejected ==
    pc = "done" =>
        \A i \in 1..Len(load_out.parsed) :
            LET unknown == UnknownIn(SectionOf(load_out.parsed[i]).v, <<>>)
            IN unknown # {} =>
                /\ load_out.exc = "InvalidOptionsError"
                /\ i = Len(load_out.parsed)
                /\ {load_out.invalid[j] : j \in 1..Len(load_out.invalid)} = unknown

\* C4: a missing mandatory file makes the load raise a file-not-found error with
\* no file parsed at all; a missing optional file raises nothing.
C4_MandatoryMissing ==
    pc = "done" =>
        /\ MissingMandatory =>
              load_out.exc = "FileNotFoundError" /\ load_out.parsed = <<>>
        /\ ~MissingMandatory =>
              load_out.exc \notin {"FileNotFoundError", "ConfigFileNotFoundError"}

\* C5: the file loader gives every option the value of the last file that sets it,
\* exactly that value also for a dict or a list, and no value if no file sets it.
C5_LaterFileOverrides ==
    (pc = "done" /\ load_out.op = "FileLoader" /\ load_out.exc = "none") =>
        \A i \in 1..Len(options) :
            LET path == options[i].path
            IN IF Defining(load_out.parsed, path) = {}
               THEN get_path(load_out.val, path).exc = "KeyError"
               ELSE get_path(load_out.val, path) = Ok(FileValue(load_out.parsed, path))

(***************************************************************************)
(* converters.py: Python's int(), float(), str() as to_type calls them     *)
(***************************************************************************)

Digits == <<"0", "1", "2", "3", "4", "5", "6", "7", "8", "9">>
IsDigit(c) == \E i \in 1..Len(Digits) : Digits[i] = c
DigitVal(c) == (CHOOSE i \in 1..Len(Digits) : Digits[i] = c) - 1
IsDigits(s) == s # <<>> /\ \A i \in 1..Len(s) : IsDigit(s[i])

RECURSIVE DigitsVal(_)
\* The number a non-empty string of digits spells.
DigitsVal(s) ==
    IF s = <<>> THEN 0
    ELSE DigitsVal(SubSeq(s, 1, Len(s) - 1)) * 10 + DigitVal(s[Len(s)])

RECURSIVE NatToStr(_)
NatToStr(n) == IF n < 10 THEN <<Digits[n + 1]>> ELSE NatToStr(n \div 10) \o <<Digits[(n % 10) + 1]>>

IntToStr(n) == IF n < 0 THEN <<"-">> \o NatToStr(-n) ELSE NatToStr(n)

\* repr() of a float held in tenths: 32 is "3.2", 10 is "1.0".
FloatToStr(tenths) ==
    LET a == IF tenths < 0 THEN -tenths ELSE tenths
    IN (IF tenths < 0 THEN <<"-">> ELSE <<>>) \o NatToStr(a \div 10) \o <<".", Digits[(a % 10) + 1]>>

RECURSIVE Strip(_)
\* str.strip() for blanks, which int() and float() apply to a string.
Strip(s) ==
    IF s # <<>> /\ Head(s) = " " THEN Strip(Tail(s))
    ELSE IF s # <<>> /\ s[Len(s)] = " " THEN Strip(SubSeq(s, 1, Len(s) - 1))
    ELSE s

HasSign(s) == s # <<>> /\ Head(s) \in {"+", "-"}
Unsigned(s) == IF HasSign(s) THEN Tail(s) ELSE s
Signed(s, n) == IF HasSign(s) /\ Head(s) = "-" THEN -n ELSE n

\* int(str): blanks around, an optional sign, decimal digits.
ParseInt(s) ==
    LET b == Strip(s)
    IN IF IsDigits(Unsigned(b)) THEN Ok(PyInt(Signed(b, DigitsVal(Unsigned(b)))))
       ELSE Raise("ValueError")

\* float(str) for decimal notation with at most one fractional digit, which is
\* all a float held in tenths can take: "3", "3.", "3.2", ".5".
ParseFloat(s) ==
    LET b == Strip(s)
        u == Unsigned(b)
        parts == Split(u, ".")
        whole == parts[1]
        frac == IF Len(parts) = 2 THEN parts[2] ELSE <<>>
    IN IF /\ Len(parts) <= 2
          /\ whole \o frac # <<>>
          /\ \A i \in 1..Len(whole) : IsDigit(whole[i])
          /\ Len(frac) <= 1
          /\ \A i \in 1..Len(frac) : IsDigit(frac[i])
       THEN Ok(PyFloat(Signed(b, DigitsVal(whole) * 10 + DigitsVal(frac))))
       ELSE Raise("ValueError")

\* int(value)
IntOf(value) ==
    CASE value.t \in {"bool", "int"} -> Ok(PyInt(value.v))
      [] value.t = "float" ->
            Ok(PyInt(IF value.v < 0 THEN -((-value.v) \div 10) ELSE value.v \div 10))
      [] value.t = "str" -> ParseInt(value.v)
      [] OTHER -> Raise("TypeError")

\* float(value)
FloatOf(value) ==
    CASE value.t \in {"bool", "int"} -> Ok(PyFloat(value.v * 10))
      [] value.t = "float" -> Ok(value)
      [] value.t = "str" -> ParseFloat(value.v)
      [] OTHER -> Raise("TypeError")

RECURSIVE Repr(_)
\* repr(value); a string is put in single quotes (the strings here hold none).
Repr(value) ==
    CASE value.t = "NoneType" -> <<"N", "o", "n", "e">>
      [] value.t = "bool" -> IF value.v = 1 THEN <<"T", "r", "u", "e">>
                             ELSE <<"F", "a", "l", "s", "e">>
      [] value.t = "int" -> IntToStr(value.v)
      [] value.t = "float" -> FloatToStr(value.v)
      [] value.t = "str" -> <<"'">> \o value.v \o <<"'">>
      [] value.t = "list" ->
            <<"[">> \o Join([i \in 1..Len(value.v) |-> Repr(value.v[i])], <<",", " ">>)
                    \o <<"]">>
      [] value.t = "dict" ->
            <<"{">> \o Join([i \in 1..Len(value.v) |->
                                <<"'">> \o value.v[i][1] \o <<"'", ":", " ">>
                                    \o Repr(value.v[i][2])], <<",", " ">>)
                    \o <<"}">>

\* str(value)
StrOf(value) == IF value.t = "str" THEN Ok(value) ELSE Ok(PyStr(Repr(value)))

(***************************************************************************)
(* converters.py: types, scalar converters                                 *)
(***************************************************************************)

\* A type handed to structure(): a class with the names of its bases (mro) and,
\* for an Enum, its members <<name, value>>; a Union with its args; an attrs class
\* with its fields.
ClassType(name, mro, members) ==
    [kind |-> "class", name |-> name, mro |-> mro, members |-> members,
     args |-> <<>>, fields |-> <<>>]
UnionOf(args) ==
    [kind |-> "union", name |-> "Union", mro |-> {}, members |-> <<>>,
     args |-> args, fields |-> <<>>]
AttrsClass(name, fields) ==
    [kind |-> "attrs", name |-> name, mro |-> {name}, members |-> <<>>,
     args |-> <<>>, fields |-> fields]
Attribute(name, type, default) == [name |-> name, type |-> type, default |-> default]

T_bool == ClassType("bool", {"bool", "int"}, <<>>)
T_int == ClassType("int", {"int"}, <<>>)
T_float == ClassType("float", {"float"}, <<>>)
T_str == ClassType("str", {"str"}, <<>>)
T_datetime == ClassType("datetime", {"datetime", "date"}, <<>>)
T_NoneType == ClassType("NoneType", {"NoneType"}, <<>>)

\* class name(*bases, Enum) with the given members
EnumClass(name, bases, members) == ClassType(name, {name, "Enum"} \cup bases, members)
EnumMember(cls, name) == [t |-> "enum", v |-> <<cls.name, name>>]
IsMember(value, cls) == value.t = "enum" /\ value.v[1] = cls.name

\* datetime(y, mo, d, h, mi, s, tzinfo); offset is <<>> (naive) or <<minutes>>.
DateTime(y, mo, d, h, mi, sec, offset) ==
    [t |-> "datetime", v |-> <<y, mo, d, h, mi, sec, offset>>]

\* type(value).__name__
TypeOf(value) == IF value.t \in {"enum", "attrs"} THEN value.v[1] ELSE value.t

IsNumber(value) == value.t \in {"bool", "int", "float"}
\* The number a bool, an int or a float stands for, in tenths.
Tenths(value) == IF value.t = "float" THEN value.v ELSE value.v * 10

\* a == b between hashable values: numbers compare by value across bool, int, float.
Equals(a, b) ==
    IF IsNumber(a) /\ IsNumber(b) THEN Tenths(a) = Tenths(b)
    ELSE a.t = b.t /\ a = b

IsHashable(value) == value.t \notin {"list", "dict"}

Chars_true == <<"t", "r", "u", "e">>
Chars_yes == <<"y", "e", "s">>
Chars_on == <<"o", "n">>
Chars_false == <<"f", "a", "l", "s", "e">>
Chars_no == <<"n", "o">>
Chars_off == <<"o", "f", "f">>

truthy == {PyBool(TRUE), PyStr(Chars_true), PyStr(<<"t">>), PyStr(Chars_yes), PyStr(<<"y">>),
           PyStr(Chars_on), PyStr(<<"1">>), PyInt(1)}
falsy == {PyBool(FALSE), PyStr(Chars_false), PyStr(<<"f">>), PyStr(Chars_no), PyStr(<<"n">>),
          PyStr(Chars_off), PyStr(<<"0">>), PyInt(0)}

\* value in members, for a set: by hash and ==.
InSet(value, members) == \E m \in members : Equals(value, m)

to_bool(value) ==
    LET low == IF value.t = "str" THEN PyStr(Lower(value.v)) ELSE value
    IN IF IsHashable(low) /\ InSet(low, truthy) THEN Ok(PyBool(TRUE))
       ELSE IF IsHashable(low) /\ InSet(low, falsy) THEN Ok(PyBool(FALSE))
       ELSE Raise("ValueError")

TwoDigits(s) == Len(s) = 2 /\ IsDigits(s)
\* HH:MM
ClockShape(s) == Len(s) = 5 /\ TwoDigits(SubSeq(s, 1, 2)) /\ s[3] = ":" /\ TwoDigits(SubSeq(s, 4, 5))
\* YYYY-MM-DD
DateShape(s) ==
    /\ Len(s) = 10 /\ IsDigits(SubSeq(s, 1, 4)) /\ s[5] = "-"
    /\ TwoDigits(SubSeq(s, 6, 7)) /\ s[8] = "-" /\ TwoDigits(SubSeq(s, 9, 10))

\* The tzinfo a suffix spells: none, "Z", or +HH:MM / -HH:MM.
ParseOffset(s) ==
    IF s = <<>> THEN Ok(<<>>)
    ELSE IF s = <<"Z">> THEN Ok(<<0>>)
    ELSE IF Len(s) = 6 /\ HasSign(s) /\ ClockShape(Tail(s))
               /\ DigitsVal(SubSeq(s, 2, 3)) <= 23 /\ DigitsVal(SubSeq(s, 5, 6)) <= 59
    THEN Ok(<<Signed(s, DigitsVal(SubSeq(s, 2, 3)) * 60 + DigitsVal(SubSeq(s, 5, 6)))>>)
    ELSE Raise("ValueError")

\* datetime.fromisoformat for the texts YYYY-MM-DD and YYYY-MM-DD?HH:MM[:SS][offset],
\* ? being any one character; every other text is invalid here.
fromisoformat(s) ==
    IF Len(s) < 10 \/ ~DateShape(SubSeq(s, 1, 10)) THEN Raise("ValueError")
    ELSE LET y == DigitsVal(SubSeq(s, 1, 4))
             mo == DigitsVal(SubSeq(s, 6, 7))
             d == DigitsVal(SubSeq(s, 9, 10))
             clock == SubSeq(s, 12, Len(s))
             hasSec == Len(clock) >= 8 /\ clock[6] = ":" /\ TwoDigits(SubSeq(clock, 7, 8))
             h == DigitsVal(SubSeq(clock, 1, 2))
             mi == DigitsVal(SubSeq(clock, 4, 5))
             sec == IF hasSec THEN DigitsVal(SubSeq(clock, 7, 8)) ELSE 0
             off == ParseOffset(SubSeq(clock, IF hasSec THEN 9 ELSE 6, Len(clock)))
         IN IF y < 1 \/ mo < 1 \/ mo > 12 \/ d < 1 \/ d > 31 THEN Raise("ValueError")
            ELSE IF Len(s) = 10 THEN Ok(DateTime(y, mo, d, 0, 0, 0, <<>>))
            ELSE IF Len(clock) < 5 \/ ~ClockShape(SubSeq(clock, 1, 5)) THEN Raise("ValueError")
            ELSE IF h > 23 \/ mi > 59 \/ sec > 59 \/ off.exc # "none" THEN Raise("ValueError")
            ELSE Ok(DateTime(y, mo, d, h, mi, sec, off.val))

\* The outcome of to_dt, with the texts it handed to the parser.
Parsed(r, texts) == [exc |-> r.exc, val |-> r.val, texts |-> texts]

to_dt(value) ==
    IF value.t \notin {"datetime", "str"} THEN Parsed(Raise("TypeError"), <<>>)
    ELSE IF value.t = "datetime" THEN Parsed(Ok(value), <<>>)
    ELSE IF value.v = <<>> THEN Parsed(Raise("IndexError"), <<>>)
    ELSE LET text == IF value.v[Len(value.v)] = "Z"
                     THEN ReplaceAll(value.v, "Z", <<"+", "0", "0", ":", "0", "0">>)
                     ELSE value.v
         IN Parsed(fromisoformat(text), <<text>>)

\* cls[value]
EnumByName(cls, value) ==
    IF ~IsHashable(value) THEN Raise("TypeError")
    ELSE IF value.t = "str" /\ \E i \in 1..Len(cls.members) : value.v = cls.members[i][1]
    THEN Ok(EnumMember(cls, value.v))
    ELSE Raise("KeyError")

\* cls(value) for an Enum class: the member itself, or the member with that value.
EnumByValue(cls, value) ==
    IF IsMember(value, cls) THEN Ok(value)
    ELSE IF \E i \in 1..Len(cls.members) : Equals(cls.members[i][2], value)
    THEN Ok(EnumMember(cls, cls.members[CHOOSE i \in 1..Len(cls.members) :
                                            Equals(cls.members[i][2], value)][1]))
    ELSE Raise("ValueError")

to_enum(value, cls) == IF IsMember(value, cls) THEN Ok(value) ELSE EnumByName(cls, value)

\* to_type(value, cls): cls(value)
to_type(value, cls) ==
    CASE cls.members # <<>> -> EnumByValue(cls, value)
      [] cls.name = "int" -> IntOf(value)
      [] cls.name = "float" -> FloatOf(value)
      [] cls.name = "str" -> StrOf(value)
      [] OTHER -> Raise("TypeError")

(***************************************************************************)
(* converters.py: TSConverter.structure and the Union and attrs hooks      *)
(***************************************************************************)

\* TSConverter.scalar_converters, in the order of the dict (Path with
\* resolve_paths=False).
scalar_converters ==
    << <<"Any", "to_any">>, <<"bool", "to_bool">>, <<"int", "to_type">>,
       <<"float", "to_type">>, <<"str", "to_type">>, <<"datetime", "to_dt">>,
       <<"Enum", "to_enum">>, <<"Path", "to_path">> >>

\* cls is ctype or (ctype is not Any and issubclass(cls, ctype))
MatchesScalar(cls, ctype) == cls.name = ctype \/ (ctype # "Any" /\ ctype \in cls.mro)

HasScalarConverter(cls) ==
    \E i \in 1..Len(scalar_converters) : MatchesScalar(cls, scalar_converters[i][1])

\* The converter of the first entry of scalar_converters that matches cls.
ScalarConverter(cls) ==
    scalar_converters[CHOOSE i \in 1..Len(scalar_converters) :
        /\ MatchesScalar(cls, scalar_converters[i][1])
        /\ \A j \in 1..(i - 1) : ~MatchesScalar(cls, scalar_converters[j][1])][2]

\* convert(value, cls) for the scalar converter named convert
ApplyScalar(convert, value, cls) ==
    CASE convert = "to_any" -> Ok(value)
      [] convert = "to_bool" -> to_bool(value)
      [] convert = "to_type" -> to_type(value, cls)
      [] convert = "to_dt" -> LET r == to_dt(value) IN [exc |-> r.exc, val |-> r.val]
      [] convert = "to_enum" -> to_enum(value, cls)
      [] convert = "to_path" ->
            IF value.t = "str" THEN Ok([t |-> "Path", v |-> value.v]) ELSE Raise("TypeError")

\* A plausible slip: the check for a value that already has a member type is left out.
ExactMemberNever(value, args) == FALSE

\* type(value) in args
ExactMember(value, args) == \E i \in 1..Len(args) : args[i].name = TypeOf(value)

RECURSIVE structure(_, _)

RECURSIVE TryMembers(_, _)
\* for arg in args: try: return converter.structure(value, arg); except Exception: pass
TryMembers(value, args) ==
    IF args = <<>> THEN Raise("ValueError")
    ELSE LET r == structure(value, Head(args))
         IN IF r.exc = "none" THEN r ELSE TryMembers(value, Tail(args))

\* UnionHookFactory: convert(value, cls)
UnionConvert(value, cls) ==
    IF ExactMember(value, cls.args) THEN Ok(value) ELSE TryMembers(value, cls.args)

HasField(cls, n) == \E i \in 1..Len(cls.fields) : cls.fields[i].name = n
FieldOf(cls, n) == cls.fields[CHOOSE i \in 1..Len(cls.fields) : cls.fields[i].name = n]

\* The outcome of structuring an attrs class: attempted are the options whose
\* value was handed to structure(), named the options the raised error names.
Structured(exc, val, attempted, named) ==
    [exc |-> exc, val |-> val, attempted |-> attempted, named |-> named]

RECURSIVE AttrsValues(_, _, _)
\* values = {n: converter.structure(v, fields[n].type) for n, v in value.items()}
AttrsValues(items, cls, acc) ==
    IF items = <<>> \/ acc.exc # "none" THEN acc
    ELSE LET n == Head(items)[1]
         IN IF ~HasField(cls, n) THEN [acc EXCEPT !.exc = "KeyError"]
            ELSE LET r == structure(Head(items)[2], FieldOf(cls, n).type)
                     tried == Append(acc.attempted, n)
                 IN IF r.exc # "none"
                    THEN [acc EXCEPT !.exc = r.exc, !.attempted = tried]
                    ELSE AttrsValues(Tail(items), cls,
                            [acc EXCEPT !.val = DictSet(acc.val, n, r.val),
                                        !.attempted = tried])

\* cls(**values): the attributes in the order of the class, defaults filled in; the
\* TypeError for missing arguments names all of them.
AttrsInit(cls, values, attempted) ==
    LET fs == cls.fields
        missing == SelectSeq([i \in 1..Len(fs) |-> fs[i].name],
                             LAMBDA n : ~DictHas(values, n) /\ FieldOf(cls, n).default.t = "NOTHING")
    IN IF missing # <<>> THEN Structured("TypeError", PyNone, attempted, missing)
       ELSE Structured("none",
                [t |-> "attrs",
                 v |-> <<cls.name,
                         [i \in 1..Len(fs) |->
                            <<fs[i].name, IF DictHas(values, fs[i].name)
                                          THEN DictGet(values, fs[i].name)
                                          ELSE fs[i].default>>]>>],
                attempted, <<>>)

\* AttrsHookFactory: convert(value, cls)
AttrsConvert(value, cls) ==
    IF value.t = "attrs" /\ value.v[1] = cls.name THEN Structured("none", value, <<>>, <<>>)
    ELSE IF value.t # "dict" THEN Structured("TypeError", PyNone, <<>>, <<>>)
    ELSE LET r == AttrsValues(value.v, cls, Structured("none", EmptyDict, <<>>, <<>>))
         IN IF r.exc # "none" THEN [r EXCEPT !.val = PyNone]
            ELSE AttrsInit(cls, r.val, r.attempted)

(***************************************************************************)
(* converters.py: the hooks for list, tuple, dict, set and frozenset       *)
(***************************************************************************)

T_Any == ClassType("Any", {}, <<>>)
\* The "..." of Tuple[T, ...]
Ellipsis == ClassType("Ellipsis", {}, <<>>)

\* list / List[T], tuple / Tuple[...], dict / Dict[K, V], set / Set[T],
\* frozenset / FrozenSet[T]: origin is the kind, args the parameters (<<>> if bare).
GenericOf(origin, args) ==
    [kind |-> origin, name |-> origin, mro |-> {}, members |-> <<>>,
     args |-> args, fields |-> <<>>]

PyTuple(xs) == [t |-> "tuple", v |-> xs]
\* A set or frozenset (kind) with the given elements.
PySet(kind, elements) == [t |-> kind, v |-> elements]
\* A dict as the dict hook builds it: items <<key, value>> whose keys are values.
PyMapping(items) == [t |-> "mapping", v |-> items]

\* TSConverter(strlist_sep=":").strlist_hook
strlist_hook(v) ==
    LET parts == Split(v, ":") IN PyList([i \in 1..Len(parts) |-> PyStr(parts[i])])

\* A plausible slip: a string is never split.
MaybeApplyNever(value) == value

maybe_apply_strlist_hook(value) ==
    IF value.t = "str" THEN strlist_hook(value.v) ELSE value

\* for v in value: the elements of a list or tuple, the characters of a str, the
\* keys of a dict; None and numbers are not iterable.
Iterate(value) ==
    CASE value.t \in {"list", "tuple"} -> Ok(value.v)
      [] value.t = "str" -> Ok([i \in 1..Len(value.v) |-> PyStr(<<value.v[i]>>)])
      [] value.t = "dict" -> Ok([i \in 1..Len(value.v) |-> PyStr(value.v[i][1])])
      [] value.t \in {"NoneType", "bool", "int", "float", "datetime"} -> Raise("TypeError")

RECURSIVE StructureEach(_, _, _)
\* [converter.structure(v, item_type) for v in values], done being the results so far
StructureEach(values, item_type, done) ==
    IF values = <<>> THEN Ok(done)
    ELSE LET r == structure(Head(values), item_type)
         IN IF r.exc # "none" THEN r
            ELSE StructureEach(Tail(values), item_type, Append(done, r.val))

RECURSIVE StructureZip(_, _, _)
\* [converter.structure(v, t) for v, t in zip(values, args)]
StructureZip(values, args, done) ==
    IF values = <<>> \/ args = <<>> THEN Ok(done)
    ELSE LET r == structure(Head(values), Head(args))
         IN IF r.exc # "none" THEN r
            ELSE StructureZip(Tail(values), Tail(args), Append(done, r.val))

\* The item type of a list, set or frozenset type: Any for the bare type.
ItemType(cls) == IF cls.args = <<>> THEN T_Any ELSE cls.args[1]

\* The converted elements of value for the item type, after the string-list hook.
ConvertItems(value, item_type) ==
    LET it == Iterate(maybe_apply_strlist_hook(value))
    IN IF it.exc # "none" THEN it ELSE StructureEach(it.val, item_type, <<>>)

\* ListHookFactory: convert(value, cls)
ListConvert(value, cls) ==
    LET r == ConvertItems(value, ItemType(cls))
    IN IF r.exc # "none" THEN r ELSE Ok(PyList(r.val))

\* set(values): equal elements are one element (the first of them stays); an
\* unhashable element is a TypeError.
SetOfValues(kind, values) ==
    IF \E i \in 1..Len(values) : ~IsHashable(values[i]) THEN Raise("TypeError")
    ELSE Ok(PySet(kind, {values[i] : i \in {k \in 1..Len(values) :
                            \A j \in 1..(k - 1) : ~Equals(values[j], values[k])}}))

\* SetHookFactory and FrozenSetHookFactory: convert(value, cls)
SetConvert(value, cls) ==
    LET r == ConvertItems(value, ItemType(cls))
    IN IF r.exc # "none" THEN r ELSE SetOfValues(cls.kind, r.val)

\* len(value)
LenOf(value) ==
    IF value.t \in {"list", "tuple", "str", "dict"} THEN Ok(Len(value.v))
    ELSE Raise("TypeError")

\* The outcome of the tuple hook; lengths is <<expected, actual>> if the error
\* raised is the one about the number of items, else <<>>.
Counted(r, lengths) == [exc |-> r.exc, val |-> r.val, lengths |-> lengths]

\* A plausible slip: only too many items are refused (zip() drops nothing then).
LengthExceeds(n, args) == n > Len(args)

\* len(value) != len(args)
LengthMismatch(n, args) == n # Len(args)

\* TupleHookFactory: convert(value, cls)
TupleConvert(value, cls) ==
    LET args == IF cls.args = <<>> THEN <<T_Any, Ellipsis>> ELSE cls.args
    IN IF Len(args) = 2 /\ args[2] = Ellipsis
       THEN LET r == ConvertItems(value, args[1])
            IN Counted(IF r.exc # "none" THEN r ELSE Ok(PyTuple(r.val)), <<>>)
       ELSE LET split == maybe_apply_strlist_hook(value)
                n == LenOf(split)
            IN IF n.exc # "none" THEN Counted(Raise(n.exc), <<>>)
               ELSE IF LengthMismatch(n.val, args)
               THEN Counted(Raise("TypeError"), <<Len(args), n.val>>)
               ELSE LET it == Iterate(split)
                        r == StructureZip(it.val, args, <<>>)
                    IN Counted(IF r.exc # "none" THEN r ELSE Ok(PyTuple(r.val)), <<>>)

RECURSIVE MappingSet(_, _, _)
\* values[key] = val for a dict with keys of any type: an equal key keeps its place.
MappingSet(items, key, val) ==
    IF items = <<>> THEN << <<key, val>> >>
    ELSE IF Equals(Head(items)[1], key) THEN << <<Head(items)[1], val>> >> \o Tail(items)
    ELSE <<Head(items)>> \o MappingSet(Tail(items), key, val)

RECURSIVE DictItems(_, _, _, _)
\* {converter.structure(k, key_type): converter.structure(v, val_type) for k, v in ...}
DictItems(items, key_type, val_type, done) ==
    IF items = <<>> THEN Ok(PyMapping(done))
    ELSE LET k == structure(PyStr(Head(items)[1]), key_type)
             w == structure(Head(items)[2], val_type)
         IN IF k.exc # "none" THEN k
            ELSE IF w.exc # "none" THEN w
            ELSE IF ~IsHashable(k.val) THEN Raise("TypeError")
            ELSE DictItems(Tail(items), key_type, val_type, MappingSet(done, k.val, w.val))

\* DictHookFactory: convert(value, cls); value.items() exists for a dict only.
DictConvert(value, cls) ==
    IF value.t # "dict" THEN Raise("AttributeError")
    ELSE DictItems(value.v, IF cls.args = <<>> THEN T_Any ELSE cls.args[1],
                   IF cls.args = <<>> THEN T_Any ELSE cls.args[2], <<>>)

\* TSConverter.structure(value, cls): the scalar converters, then the hooks for
\* list, tuple, dict, set, frozenset, Union and attrs classes.  The outcome of the
\* tuple and of the attrs hook carries what their exception tells (lengths;
\* attempted, named) next to exc and val.
structure(value, cls) ==
    IF HasScalarConverter(cls) THEN ApplyScalar(ScalarConverter(cls), value, cls)
    ELSE IF cls.kind = "list" THEN ListConvert(value, cls)
    ELSE IF cls.kind = "tuple" THEN TupleConvert(value, cls)
    ELSE IF cls.kind = "dict" THEN DictConvert(value, cls)
    ELSE IF cls.kind \in {"set", "frozenset"} THEN SetConvert(value, cls)
    ELSE IF cls.kind = "union" THEN UnionConvert(value, cls)
    ELSE IF cls.kind = "attrs" THEN AttrsConvert(value, cls)
    ELSE Raise("TypeError")

(***************************************************************************)
(* Inputs of the converters                                                *)
(***************************************************************************)

BoolInputs ==
    { PyBool(TRUE), PyBool(FALSE), PyInt(0), PyInt(1), PyInt(2), PyInt(-1),
      PyFloat(0), PyFloat(10), PyFloat(25), PyNone, PyList(<<>>), PyList(<<PyInt(1)>>),
      EmptyDict,
      PyStr(<<"t", "r", "u", "e">>),
      PyStr(<<"T", "R", "U", "E">>),
      PyStr(<<"T", "r", "u", "e">>),
      PyStr(<<"t">>),
      PyStr(<<"y", "e", "s">>),
      PyStr(<<"Y", "E", "S">>),
      PyStr(<<"y">>),
      PyStr(<<"o", "n">>),
      PyStr(<<"O", "n">>),
      PyStr(<<"1">>),
      PyStr(<<"f", "a", "l", "s", "e">>),
      PyStr(<<"F">>),
      PyStr(<<"n", "o">>),
      PyStr(<<"N">>),
      PyStr(<<"o", "f", "f">>),
      PyStr(<<"O", "F", "F">>),
      PyStr(<<"0">>),
      PyStr(<<>>),
      PyStr(<<"m", "a", "y", "b", "e">>),
      PyStr(<<"2">>),
      PyStr(<<" ", "t", "r", "u", "e">>),
      PyStr(<<"t", "r", "u">>),
      PyStr(<<"1", ".", "0">>) }

ADateTime == DateTime(2020, 5, 4, 13, 37, 0, <<>>)

Chars_date == <<"2", "0", "2", "0", "-", "0", "5", "-", "0", "4">>
Chars_clock == <<"1", "3", ":", "3", "7", ":", "0", "0">>
Chars_utc == <<"+", "0", "0", ":", "0", "0">>

DtInputs ==
    { ADateTime, PyInt(3), PyNone,
      PyStr(Chars_date \o <<"T">> \o Chars_clock \o <<"Z">>),
      PyStr(Chars_date \o <<"T">> \o Chars_clock \o Chars_utc),
      PyStr(Chars_date \o <<"Z">> \o Chars_clock \o <<"Z">>),
      PyStr(Chars_date \o <<"Z">> \o Chars_clock \o Chars_utc),
      PyStr(Chars_date \o <<"T">> \o Chars_clock),
      PyStr(Chars_date \o <<" ">> \o Chars_clock),
      PyStr(Chars_date \o <<"T">> \o Chars_clock \o <<"+", "0", "2", ":", "0", "0">>),
      PyStr(Chars_date),
      PyStr(Chars_date \o <<"Z">>),
      PyStr(Chars_date \o <<"T", "1", "3", ":", "3", "7", "Z">>),
      PyStr(Chars_date \o <<"T">> \o Chars_clock \o <<"z">>),
      PyStr(<<"Z">>),
      PyStr(<<>>) }

N_spam == <<"s", "p", "a", "m">>
N_eggs == <<"e", "g", "g", "s">>
V_spam == <<"L", "e", " ", "S", "p", "a", "m">>
V_eggs == <<"L", "e", " ", "E", "g", "g", "s">>

\* class LeEnum(Enum): spam = "Le Spam"; eggs = "Le Eggs"
LeEnum == EnumClass("LeEnum", {}, << <<N_spam, PyStr(V_spam)>>, <<N_eggs, PyStr(V_eggs)>> >>)
\* class IntE(int, Enum): a = 1; b = 2
IntE == EnumClass("IntE", {"int"}, << <<K_a, PyInt(1)>>, <<K_b, PyInt(2)>> >>)
\* class StrE(str, Enum): x = "y"; y = "x"
StrE == EnumClass("StrE", {"str"}, << <<K_x, PyStr(K_y)>>, <<K_y, PyStr(K_x)>> >>)

EnumClasses == {LeEnum, IntE, StrE}

EnumInputs ==
    { EnumMember(LeEnum, N_spam), EnumMember(IntE, K_b), EnumMember(StrE, K_x),
      PyStr(N_spam), PyStr(N_eggs), PyStr(V_spam), PyStr(K_a), PyStr(K_b), PyStr(K_x),
      PyStr(K_y), PyStr(K_z), PyStr(<<"1">>), PyStr(<<>>), PyInt(1), PyInt(7) }

UnionTypes ==
    { UnionOf(<<T_int, T_NoneType>>), UnionOf(<<T_str, T_NoneType>>),
      UnionOf(<<T_int, T_float>>), UnionOf(<<T_float, T_int>>),
      UnionOf(<<T_int, T_str>>), UnionOf(<<T_bool, T_int>>),
      UnionOf(<<T_datetime, T_float, T_bool>>) }

UnionInputs ==
    { PyNone, PyBool(TRUE), PyInt(1), PyInt(3), PyFloat(32), PyFloat(0), PyList(<<>>),
      PyStr(<<"3">>), PyStr(<<"3", ".", "2">>), PyStr(<<" ", "3">>), PyStr(<<"x">>),
      PyStr(<<>>), PyStr(Chars_yes), PyStr(Chars_date) }

\* class Opts: a: int; b: int; c: bool = False
Opts == AttrsClass("Opts", << Attribute(K_a, T_int, NOTHING), Attribute(K_b, T_int, NOTHING),
                             Attribute(K_c, T_bool, PyBool(FALSE)) >>)

AttrsInputs ==
    { PyDict(ia \o ib \o ic) :
        ia \in Items(K_a, {PyInt(1), PyStr(<<"1">>), PyStr(<<"x">>)}),
        ib \in Items(K_b, {PyInt(2), PyStr(<<"y">>)}),
        ic \in Items(K_c, {PyStr(Chars_yes), PyStr(<<"m", "a", "y", "b", "e">>)}) }
    \cup { PyDict(<< <<K_b, PyStr(<<"y">>)>>, <<K_a, PyStr(<<"x">>)>> >>),
           PyDict(<< <<K_z, PyInt(1)>> >>), PyInt(3) }

\* The outcome of a converter call, as conv_out holds it.
\* list, List[int], List[str], List[List[int]], Set[int], FrozenSet[int],
\* Set[List[int]], dict, Dict[str, int], Dict[int, str]
CollectionTypes ==
    { GenericOf("list", <<>>), GenericOf("list", <<T_int>>), GenericOf("list", <<T_str>>),
      GenericOf("list", <<GenericOf("list", <<T_int>>)>>),
      GenericOf("set", <<T_int>>), GenericOf("frozenset", <<T_int>>),
      GenericOf("set", <<GenericOf("list", <<T_int>>)>>),
      GenericOf("dict", <<>>), GenericOf("dict", <<T_str, T_int>>),
      GenericOf("dict", <<T_int, T_str>>) }

\* tuple, Tuple[int, ...], Tuple[str, ...], Tuple[int], Tuple[int, str],
\* Tuple[int, int, int]
TupleTypes ==
    { GenericOf("tuple", <<>>), GenericOf("tuple", <<T_int, Ellipsis>>),
      GenericOf("tuple", <<T_str, Ellipsis>>), GenericOf("tuple", <<T_int>>),
      GenericOf("tuple", <<T_int, T_str>>), GenericOf("tuple", <<T_int, T_int, T_int>>) }

S_1 == <<"1">>
S_2 == <<"2">>
S_3 == <<"3">>
S_x == <<"x">>
S_1_2 == <<"1", ":", "2">>
S_1_2_3 == <<"1", ":", "2", ":", "3">>

\* "1:2:3", "1:2", "1", "", "1:x", "1:1:2", ":1", [1, 2, 3], ["1", "2"],
\* ["1:2", "3"], [1, "x"], [], [2, 2.0], (1, 2), {"x": "1"}, {"1": "2", "2": 3},
\* 3, None
CollectionInputs ==
    { PyStr(S_1_2_3), PyStr(S_1_2), PyStr(S_1), PyStr(<<>>), PyStr(<<"1", ":", "x">>),
      PyStr(<<"1", ":", "1", ":", "2">>), PyStr(<<":", "1">>),
      PyList(<<PyInt(1), PyInt(2), PyInt(3)>>), PyList(<<PyStr(S_1), PyStr(S_2)>>),
      PyList(<<PyStr(S_1_2), PyStr(S_3)>>), PyList(<<PyInt(1), PyStr(S_x)>>),
      PyList(<<>>), PyList(<<PyInt(2), PyFloat(20)>>),
      PyTuple(<<PyInt(1), PyInt(2)>>),
      PyDict(<< <<S_x, PyStr(S_1)>> >>),
      PyDict(<< <<S_1, PyStr(S_2)>>, <<S_2, PyInt(3)>> >>),
      PyInt(3), PyNone }

Outcome(r) ==
    [exc |-> r.exc, val |-> r.val, texts |-> <<>>, attempted |-> <<>>, named |-> <<>>,
     lengths |-> <<>>]

InitConvert ==
    /\ pc = "start"
    /\ conv_in = Idle /\ conv_out = Idle
    /\ options = Idle /\ settings = Idle /\ merged_settings = Idle
    /\ fsys = Idle /\ config_files = Idle /\ environ = Idle /\ load_out = Idle

Called(op, value, cls) == [op |-> op, value |-> value, cls |-> cls]

ToBool ==
    /\ pc = "start"
    /\ \E value \in BoolInputs :
          /\ conv_in' = Called("to_bool", value, T_bool)
          /\ conv_out' = Outcome(to_bool(value))
    /\ pc' = "done"
    /\ UNCHANGED <<options, settings, merged_settings, fsys, config_files, environ, load_out>>

ToDt ==
    /\ pc = "start"
    /\ \E value \in DtInputs :
          /\ conv_in' = Called("to_dt", value, T_datetime)
          /\ conv_out' = [Outcome(to_dt(value)) EXCEPT !.texts = to_dt(value).texts]
    /\ pc' = "done"
    /\ UNCHANGED <<options, settings, merged_settings, fsys, config_files, environ, load_out>>

StructureEnum ==
    /\ pc = "start"
    /\ \E cls \in EnumClasses, value \in EnumInputs :
          /\ conv_in' = Called("structure_enum", value, cls)
          /\ conv_out' = Outcome(structure(value, cls))
    /\ pc' = "done"
    /\ UNCHANGED <<options, settings, merged_settings, fsys, config_files, environ, load_out>>

StructureUnion ==
    /\ pc = "start"
    /\ \E cls \in UnionTypes, value \in UnionInputs :
          /\ conv_in' = Called("structure_union", value, cls)
          /\ conv_out' = Outcome(structure(value, cls))
    /\ pc' = "done"
    /\ UNCHANGED <<options, settings, merged_settings, fsys, config_files, environ, load_out>>

StructureAttrs ==
    /\ pc = "start"
    /\ \E value \in AttrsInputs :
          /\ conv_in' = Called("structure_attrs", value, Opts)
          /\ conv_out' = [Outcome(structure(value, Opts)) EXCEPT
                            !.attempted = structure(value, Opts).attempted,
                            !.named = structure(value, Opts).named]
    /\ pc' = "done"
    /\ UNCHANGED <<options, settings, merged_settings, fsys, config_files, environ, load_out>>

StructureCollection ==
    /\ pc = "start"
    /\ \E cls \in CollectionTypes, value \in CollectionInputs :
          /\ conv_in' = Called("structure_collection", value, cls)
          /\ conv_out' = Outcome(structure(value, cls))
    /\ pc' = "done"
    /\ UNCHANGED <<options, settings, merged_settings, fsys, config_files, environ, load_out>>

StructureTuple ==
    /\ pc = "start"
    /\ \E cls \in TupleTypes, value \in CollectionInputs :
          /\ conv_in' = Called("structure_tuple", value, cls)
          /\ conv_out' = [Outcome(structure(value, cls)) EXCEPT
                            !.lengths = structure(value, cls).lengths]
    /\ pc' = "done"
    /\ UNCHANGED <<options, settings, merged_settings, fsys, config_files, environ, load_out>>

NextConvert ==
    \/ ToBool \/ ToDt \/ StructureEnum \/ StructureUnion \/ StructureAttrs
    \/ StructureCollection \/ StructureTuple

SpecConvert == InitConvert /\ [][NextConvert]_vars

(***************************************************************************)
(* Properties of the converters                                            *)
(***************************************************************************)

Returned == [exc |-> conv_out.exc, val |-> conv_out.val]
SeqRange(sq) == {sq[i] : i \in 1..Len(sq)}

\* The options of cls that cannot get a value from the dict: the value does not
\* convert to the type of the option, or the option is required and has no value.
FailingOptions(value, cls) ==
    {cls.fields[i].name : i \in {j \in 1..Len(cls.fields) :
        IF DictHas(value, cls.fields[j].name)
        THEN structure(DictGet(value, cls.fields[j].name), cls.fields[j].type).exc # "none"
        ELSE cls.fields[j].default.t = "NOTHING"}}

\* C6: converting the settings dict into the settings class attempts every option
\* and, if options fail, raises one error that names every failing option.
C6_AllFailuresReported ==
    (/\ pc = "done" /\ conv_in.op = "structure_attrs" /\ conv_in.value.t = "dict"
     /\ \A k \in DictKeys(conv_in.value) : HasField(conv_in.cls, k)) =>
        IF FailingOptions(conv_in.value, conv_in.cls) = {}
        THEN conv_out.exc = "none"
        ELSE /\ conv_out.exc # "none"
             /\ SeqRange(conv_out.attempted) = DictKeys(conv_in.value)
             /\ SeqRange(conv_out.named) = FailingOptions(conv_in.value, conv_in.cls)

TrueWords == {Chars_true, <<"t">>, Chars_yes, <<"y">>, Chars_on, <<"1">>}
FalseWords == {Chars_false, <<"f">>, Chars_no, <<"n">>, Chars_off, <<"0">>}

\* C7: to_bool returns True exactly for True, 1 and the true words in any case,
\* False exactly for False, 0 and the false words, and raises ValueError otherwise.
C7_ExactVocabulary ==
    (pc = "done" /\ conv_in.op = "to_bool") =>
        LET value == conv_in.value
            isTrue == \/ value.t \in {"bool", "int"} /\ value.v = 1
                      \/ value.t = "str" /\ Lower(value.v) \in TrueWords
            isFalse == \/ value.t \in {"bool", "int"} /\ value.v = 0
                       \/ value.t = "str" /\ Lower(value.v) \in FalseWords
        IN Returned = IF isTrue THEN Ok(PyBool(TRUE))
                      ELSE IF isFalse THEN Ok(PyBool(FALSE))
                      ELSE Raise("ValueError")

\* The positions of the members of a union that convert the value.
Converting(value, args) == {i \in 1..Len(args) : structure(value, args[i]).exc = "none"}
First(S) == CHOOSE i \in S : \A j \in S : i <= j

\* C8: structuring into a Union returns a value whose exact type is a member
\* unchanged, else the result of the first member, in declaration order, that
\* converts it, else raises one ValueError.
C8_UnionFirstMember ==
    (pc = "done" /\ conv_in.op = "structure_union") =>
        LET value == conv_in.value
            args == conv_in.cls.args
        IN IF \E i \in 1..Len(args) : args[i].name = TypeOf(value)
           THEN Returned = Ok(value)
           ELSE IF Converting(value, args) # {}
           THEN Returned = structure(value, args[First(Converting(value, args))])
           ELSE Returned = Raise("ValueError")

\* 3.2 stays a float for Union[int, float], and "3.2" is converted by the second
\* member of it after int has failed.
C8_Witness ==
    /\ pc = "done" /\ conv_in.op = "structure_union"
    /\ conv_in.cls = UnionOf(<<T_int, T_float>>)
    /\ \/ conv_in.value = PyFloat(32) /\ Returned = Ok(PyFloat(32))
       \/ conv_in.value.t = "str" /\ Returned = Ok(PyFloat(32))

\* C9: structuring into any Enum class returns a member of it unchanged and
\* otherwise looks the value up as a member name, raising KeyError for no name.
C9_EnumByName ==
    (pc = "done" /\ conv_in.op = "structure_enum") =>
        LET value == conv_in.value
            cls == conv_in.cls
        IN IF IsMember(value, cls) THEN Returned = Ok(value)
           ELSE IF value.t = "str" /\ \E i \in 1..Len(cls.members) : cls.members[i][1] = value.v
           THEN Returned = Ok(EnumMember(cls, value.v))
           ELSE Returned = Raise("KeyError")

\* The input with only a trailing "Z" replaced by "+00:00".
TrailingZReplaced(text) ==
    IF text # <<>> /\ text[Len(text)] = "Z"
    THEN SubSeq(text, 1, Len(text) - 1) \o <<"+", "0", "0", ":", "0", "0">>
    ELSE text

\* C10: to_dt returns a datetime unchanged, and the text it hands to the parser
\* is the input string with only a trailing "Z" replaced by "+00:00".
C10_OnlyTrailingZ ==
    (pc = "done" /\ conv_in.op = "to_dt") =>
        /\ conv_in.value.t = "datetime" => Returned = Ok(conv_in.value)
        /\ conv_in.value.t = "str" =>
              \A i \in 1..Len(conv_out.texts) :
                  conv_out.texts[i] = TrailingZReplaced(conv_in.value.v)

\* The pieces a list-like hook converts: the ':'-separated parts of a string, the
\* elements of a list or tuple.
Pieces(value) ==
    IF value.t = "str"
    THEN LET parts == Split(value.v, ":") IN [i \in 1..Len(parts) |-> PyStr(parts[i])]
    ELSE value.v

\* Tuple[T, ...] or the bare tuple
IsVariadic(cls) ==
    cls.kind = "tuple" /\ (cls.args = <<>> \/ (Len(cls.args) = 2 /\ cls.args[2] = Ellipsis))

IsListLike(cls) == cls.kind \in {"list", "set", "frozenset"} \/ IsVariadic(cls)

\* C11: for a list, set, frozenset or variable-length tuple type, a string is split
\* at ':' and every piece is converted to the element type, a list or tuple is
\* converted element by element without any splitting: the call succeeds exactly
\* when every piece converts (and, for a set, can be hashed) and then returns the
\* converted pieces in the container of the type; a string handed to a dict type is
\* never split into a result.
C11_SplitThenConvert ==
    (pc = "done" /\ conv_in.op \in {"structure_collection", "structure_tuple"}) =>
        /\ (IsListLike(conv_in.cls) /\ conv_in.value.t \in {"str", "list", "tuple"}) =>
              LET pieces == Pieces(conv_in.value)
                  item == IF conv_in.cls.args = <<>> THEN T_Any ELSE conv_in.cls.args[1]
                  each == [i \in 1..Len(pieces) |-> structure(pieces[i], item)]
                  fine == \A i \in 1..Len(pieces) : each[i].exc = "none"
                  vals == [i \in 1..Len(pieces) |-> each[i].val]
              IN IF ~fine THEN conv_out.exc # "none"
                 ELSE IF conv_in.cls.kind = "list"
                 THEN conv_out.exc = "none" /\ conv_out.val = PyList(vals)
                 ELSE IF conv_in.cls.kind = "tuple"
                 THEN conv_out.exc = "none" /\ conv_out.val = PyTuple(vals)
                 ELSE IF \E i \in 1..Len(pieces) : ~IsHashable(vals[i])
                 THEN conv_out.exc = "TypeError"
                 ELSE /\ conv_out.exc = "none"
                      /\ conv_out.val.t = conv_in.cls.kind
                      /\ conv_out.val.v = {vals[i] : i \in 1..Len(pieces)}
        /\ (conv_in.cls.kind = "dict" /\ conv_in.value.t = "str") => conv_out.exc # "none"

\* "1:2:3" was converted for List[int] and gave [1, 2, 3].
C11_Witness ==
    /\ pc = "done" /\ conv_in.op = "structure_collection"
    /\ conv_in.cls = GenericOf("list", <<T_int>>)
    /\ conv_in.value.t = "str" /\ conv_in.value.v = S_1_2_3
    /\ conv_out.exc = "none"
    /\ conv_out.val = PyList(<<PyInt(1), PyInt(2), PyInt(3)>>)

\* C12: a tuple type of n element types takes exactly n pieces (the parts of a
\* split string, the elements of a list or tuple) and converts piece i to type i;
\* any other number of pieces is a TypeError that names n and the number found;
\* Tuple[T, ...] takes any number of pieces and converts each to T.
C12_TupleArity ==
    (pc = "done" /\ conv_in.op = "structure_tuple"
        /\ conv_in.value.t \in {"str", "list", "tuple"}) =>
        LET pieces == Pieces(conv_in.value)
            args == conv_in.cls.args
        IN IF IsVariadic(conv_in.cls)
           THEN LET item == IF args = <<>> THEN T_Any ELSE args[1]
                    each == [i \in 1..Len(pieces) |-> structure(pieces[i], item)]
                IN /\ conv_out.lengths = <<>>
                   /\ (\A i \in 1..Len(pieces) : each[i].exc = "none") =>
                         /\ conv_out.exc = "none"
                         /\ conv_out.val = PyTuple([i \in 1..Len(pieces) |-> each[i].val])
           ELSE IF Len(pieces) # Len(args)
           THEN conv_out.exc = "TypeError" /\ conv_out.lengths = <<Len(args), Len(pieces)>>
           ELSE LET each == [i \in 1..Len(args) |-> structure(pieces[i], args[i])]
                IN /\ conv_out.lengths = <<>>
                   /\ IF \A i \in 1..Len(args) : each[i].exc = "none"
                      THEN /\ conv_out.exc = "none"
                           /\ conv_out.val = PyTuple([i \in 1..Len(args) |-> each[i].val])
                      ELSE conv_out.exc # "none"

\* "1:2" was refused for Tuple[int, int, int]: 3 items expected, 2 found.
C12_Witness ==
    /\ pc = "done" /\ conv_in.op = "structure_tuple"
    /\ conv_in.cls = GenericOf("tuple", <<T_int, T_int, T_int>>)
    /\ conv_in.value.t = "str" /\ conv_in.value.v = S_1_2
    /\ conv_out.exc = "TypeError" /\ conv_out.lengths = <<3, 2>>

(***************************************************************************)
(* Resolving the config file candidates                                    *)
(***************************************************************************)

\* A file whose name holds a '!' that is not its first character.
F_gf == <<"g", "!", "f">>

\* f, g, !f, !!f, g!f and the empty entry
ResolveEntries == {F_f, F_g, Mandatory(F_f), Mandatory(Mandatory(F_f)), F_gf, <<>>}

\* T_SETTINGS: "", "f", "g:f", "f::g", "f:f", "!g:f", "g!f"
ResolveVarValues ==
    { <<>>, F_f, F_g \o <<":">> \o F_f, F_f \o <<":", ":">> \o F_g,
      F_f \o <<":">> \o F_f, Mandatory(F_g) \o <<":">> \o F_f, F_gf }

InitResolve ==
    /\ pc = "start"
    /\ fsys \in [{F_f, F_g, F_gf} -> {[state |-> "missing", doc |-> PyNone],
                                      [state |-> "ok", doc |-> EmptyDict]}]
    /\ config_files \in SeqsTo(ResolveEntries, MaxFiles)
    /\ environ \in {<<>>} \cup {[n \in {SettingsVar} |-> sv] : sv \in ResolveVarValues}
    /\ load_out = Idle
    /\ options = Idle /\ settings = Idle /\ merged_settings = Idle
    /\ conv_in = Idle /\ conv_out = Idle

\* FileLoader._get_config_filenames(config_files, "T_SETTINGS")
GetConfigFilenames ==
    /\ pc = "start"
    /\ \E r \in {FileLoader_get_config_filenames(config_files, SettingsVar, environ, fsys)} :
          load_out' = [op |-> "FileLoader", exc |-> r.exc, paths |-> r.paths,
                       log |-> r.log]
    /\ pc' = "done"
    /\ UNCHANGED <<options, settings, merged_settings, fsys, config_files, environ,
                   conv_in, conv_out>>

\* _core._get_config_filenames(config_files, "T_SETTINGS")
CoreGetConfigFilenames ==
    /\ pc = "start"
    /\ load_out' = [op |-> "_core", exc |-> "none",
                    paths |-> _get_config_filenames(config_files, SettingsVar, environ, fsys),
                    log |-> <<>>]
    /\ pc' = "done"
    /\ UNCHANGED <<options, settings, merged_settings, fsys, config_files, environ,
                   conv_in, conv_out>>

NextResolve == GetConfigFilenames \/ CoreGetConfigFilenames

SpecResolve == InitResolve /\ [][NextResolve]_vars

\* C13: the file loader returns the candidates that exist, each by its path: those
\* of config_files in their order, then those of T_SETTINGS in their order; entries
\* that are empty or name a missing optional file are left out, and a file is
\* returned as often as it is named.
C13_ExistingInOrder ==
    (pc = "done" /\ load_out.op = "FileLoader" /\ load_out.exc = "none") =>
        load_out.paths = FileSources

\* C14: an entry is mandatory exactly if it starts with '!', and its path is the
\* entry without that one '!'; any other entry is optional and its path is the
\* entry as written.  So the file loader raises exactly if a mandatory path is
\* missing and otherwise returns the existing paths; the legacy resolution returns
\* the mandatory paths and the existing optional ones.
C14_LeadingBangOnly ==
    pc = "done" =>
        IF load_out.op = "FileLoader"
        THEN IF MissingMandatory THEN load_out.exc = "FileNotFoundError"
             ELSE load_out.exc = "none" /\ load_out.paths = FileSources
        ELSE LET kept == SelectSeq(Candidates, LAMBDA c : IsMandatory(c) \/ ExistingFile(c))
             IN load_out.paths = [i \in 1..Len(kept) |-> NameOf(kept[i])]

(***************************************************************************)
(* Cleaning the settings of one file: '-' and '_' in keys                  *)
(***************************************************************************)

\* The most keys the settings of a file have at their top level.
MaxKeys == 3

K_a_b == <<"a", "_", "b">>
K_a__b == <<"a", "-", "b">>
K_s_t == <<"s", "_", "t">>
K_s__t == <<"s", "-", "t">>
K_c_d == <<"c", "_", "d">>
K_c__d == <<"c", "-", "d">>
K_o == <<"o">>
K_x__y == <<"x", "-", "y">>

\* class Sub: c_d: int
\* class Settings: a_b: int; s_t: Sub; o: dict
DashOptions == << OptionInfo(K_a_b), OptionInfo(K_s_t \o <<".">> \o K_c_d), OptionInfo(K_o) >>

\* The items a file may hold: both spellings of an option key and of a section
\* key, a section with both spellings of its option, dicts as the value of o with
\* '-' in their own keys, and a key of no option.
DashItems ==
    { <<K_a__b, PyInt(1)>>, <<K_a_b, PyInt(2)>>,
      <<K_s__t, PyDict(<< <<K_c__d, PyInt(3)>> >>)>>,
      <<K_s_t, PyDict(<< <<K_c_d, PyInt(4)>> >>)>>,
      <<K_s_t, PyDict(<< <<K_c__d, PyInt(5)>>, <<K_c_d, PyInt(6)>> >>)>>,
      <<K_s__t, PyDict(<< <<K_c_d, PyInt(7)>>, <<K_c__d, PyInt(8)>> >>)>>,
      <<K_o, PyDict(<< <<K_x__y, PyInt(9)>>, <<K_a__b, PyInt(0)>> >>)>>,
      <<K_o, PyDict(<< <<K_s_t, PyDict(<< <<K_c__d, PyInt(1)>> >>)>> >>)>>,
      <<K_x__y, PyInt(2)>> }

\* The settings of a file: up to MaxKeys items with keys that differ as written.
DashSettings ==
    { PyDict(items) : items \in { sq \in SeqsTo(DashItems, MaxKeys) :
          \A i, j \in 1..Len(sq) : i # j => sq[i][1] # sq[j][1] } }

InitClean ==
    /\ pc = "start"
    /\ options = DashOptions
    /\ settings \in DashSettings
    /\ load_out = Idle
    /\ merged_settings = Idle
    /\ fsys = Idle /\ config_files = Idle /\ environ = Idle
    /\ conv_in = Idle /\ conv_out = Idle

\* clean_settings(settings, options, source)
CleanSettings ==
    /\ pc = "start"
    /\ \E r \in {clean_settings(settings, options)} :
          load_out' = [op |-> "clean_settings", exc |-> r.exc, val |-> r.val,
                       invalid |-> r.invalid]
    /\ pc' = "done"
    /\ UNCHANGED <<options, settings, merged_settings, fsys, config_files, environ,
                   conv_in, conv_out>>

\* The last two steps of _core._load_toml on the section of a file
LoadTomlCleaning ==
    /\ pc = "start"
    /\ \E r \in {_clean_settings(options, _rename_dict_keys(settings))} :
          load_out' = [op |-> "_load_toml", exc |-> r.exc, val |-> r.val, invalid |-> <<>>]
    /\ pc' = "done"
    /\ UNCHANGED <<options, settings, merged_settings, fsys, config_files, environ,
                   conv_in, conv_out>>

NextClean == CleanSettings \/ LoadTomlCleaning

SpecClean == InitClean /\ [][NextClean]_vars

\* A key with every '-' turned into '_'.
Underscored(key) == [i \in 1..Len(key) |-> IF key[i] = "-" THEN "_" ELSE key[i]]

RECURSIVE Given(_, _)
\* The values the items give the option at parts, in the order of the file; keys
\* are compared after normalization.
Given(items, parts) ==
    IF items = <<>> THEN <<>>
    ELSE LET val == Head(items)[2]
             here == IF Underscored(Head(items)[1]) # Head(parts) THEN <<>>
                     ELSE IF Len(parts) = 1 THEN <<val>>
                     ELSE IF IsDict(val) THEN Given(val.v, Tail(parts))
                     ELSE <<>>
         IN here \o Given(Tail(items), parts)

\* The top-level keys of the file that, normalized, are no option and no section.
Strangers ==
    {i \in 1..Len(settings.v) :
        \A j \in 1..Len(options) :
            Underscored(settings.v[i][1]) # Head(Split(options[j].path, "."))}

\* C15: keys are compared with '-' normalized to '_': if the file holds no key of
\* no option, cleaning gives every option the value of the last of its spellings
\* in the file, unchanged (a dict with its own keys as written), and no value if
\* the file does not set it; a key that is no option also after normalization is
\* reported by clean_settings under its normalized name.
C15_DashesNormalized ==
    pc = "done" =>
        IF Strangers = {}
        THEN /\ load_out.exc = "none"
             /\ \A j \in 1..Len(options) :
                   LET given == Given(settings.v, Split(options[j].path, "."))
                   IN IF given = <<>>
                      THEN get_path(load_out.val, options[j].path).exc = "KeyError"
                      ELSE get_path(load_out.val, options[j].path) = Ok(given[Len(given)])
        ELSE load_out.op = "clean_settings" =>
                /\ load_out.exc = "InvalidOptionsError"
                /\ {load_out.invalid[k] : k \in 1..Len(load_out.invalid)}
                     = {Underscored(settings.v[i][1]) : i \in Strangers}

(***************************************************************************)
(* Loading from environment variables                                      *)
(***************************************************************************)

K_host_port == K_host \o <<"_">> \o K_port
V_URL == <<"U", "R", "L">>
V_HOST == <<"H", "O", "S", "T">>
V_HOST_PORT == <<"H", "O", "S", "T", "_", "P", "O", "R", "T">>
V_HOST_DOT_PORT == <<"H", "O", "S", "T", ".", "P", "O", "R", "T">>
Prefix_T == <<"T", "_">>

\* class Host: port: int
\* class Settings: url: str; host: Host; host_port: int
EnvOptions == << OptionInfo(K_url), OptionInfo(P_host_port), OptionInfo(K_host_port) >>

\* T_URL, T_HOST_PORT, T_HOST, T_HOST.PORT, T_url and URL
EnvNames ==
    { Prefix_T \o V_URL, Prefix_T \o V_HOST_PORT, Prefix_T \o V_HOST,
      Prefix_T \o V_HOST_DOT_PORT, Prefix_T \o K_url, V_URL }

\* os.environ: each of the names unset, empty or "8"
EnvEnvironments == UNION {[ns -> {<<>>, <<"8">>}] : ns \in SUBSET EnvNames}

InitEnv ==
    /\ pc = "start"
    /\ options = EnvOptions
    /\ environ \in EnvEnvironments
    /\ load_out = Idle
    /\ settings = Idle /\ merged_settings = Idle
    /\ fsys = Idle /\ config_files = Idle
    /\ conv_in = Idle /\ conv_out = Idle

\* EnvLoader(prefix)(Settings, options) with prefix "T_" or ""
EnvLoaderCall ==
    /\ pc = "start"
    /\ \E prefix \in {Prefix_T, <<>>} : \E r \in {EnvLoader_call(prefix, options, environ)} :
          load_out' = [op |-> "EnvLoader", prefix |-> prefix, exc |-> r.exc, val |-> r.val]
    /\ pc' = "done"
    /\ UNCHANGED <<options, settings, merged_settings, fsys, config_files, environ,
                   conv_in, conv_out>>

\* _from_env(fields, "t", AUTO)
FromEnv ==
    /\ pc = "start"
    /\ \E r \in {_from_env(options, AppName, environ)} :
          load_out' = [op |-> "_from_env", prefix |-> Prefix_T, exc |-> r.exc, val |-> r.val]
    /\ pc' = "done"
    /\ UNCHANGED <<options, settings, merged_settings, fsys, config_files, environ,
                   conv_in, conv_out>>

NextEnv == EnvLoaderCall \/ FromEnv

SpecEnv == InitEnv /\ [][NextEnv]_vars

\* The variable of each of EnvOptions, without the prefix.
EnvUpper == << V_URL, V_HOST_PORT, V_HOST_PORT >>

RECURSIVE Leaves(_, _)
\* The dotted paths of the entries of a dict that are no dict or an empty one.
Leaves(items, prefix) ==
    IF items = <<>> THEN {}
    ELSE LET path == prefix \o Head(items)[1]
             val == Head(items)[2]
         IN (IF IsDict(val) /\ val.v # <<>> THEN Leaves(val.v, path \o <<".">>) ELSE {path})
            \cup Leaves(Tail(items), prefix)

\* C16: the environment loader gives an option the string of the variable prefix +
\* PATH (upper case, '.' as '_') if that variable is set, the empty string
\* included, and nothing otherwise; its result has no other entry, whatever other
\* variables are set.
C16_EnvVarsRaw ==
    pc = "done" =>
        /\ load_out.exc = "none"
        /\ \A j \in 1..Len(options) :
              LET var == load_out.prefix \o EnvUpper[j]
              IN IF var \in DOMAIN environ
                 THEN get_path(load_out.val, options[j].path) = Ok(PyStr(environ[var]))
                 ELSE get_path(load_out.val, options[j].path).exc = "KeyError"
        /\ Leaves(load_out.val.v, <<>>) =
              {options[j].path : j \in {k \in 1..Len(options) :
                                          load_out.prefix \o EnvUpper[k] \in DOMAIN environ}}

\* T_URL and T_HOST were set and T_HOST_PORT was not: the result is {url: "8"}.
C16_Witness ==
    /\ pc = "done" /\ load_out.op = "EnvLoader" /\ load_out.prefix = Prefix_T
    /\ DOMAIN environ = {Prefix_T \o V_URL, Prefix_T \o V_HOST}
    /\ environ[Prefix_T \o V_URL] = <<"8">>
    /\ load_out.val = PyDict(<< <<K_url, PyStr(<<"8">>)>> >>)

(***************************************************************************)
(* dict_utils.py / cls_utils.py: deep_options and group_options             *)
(***************************************************************************)

\* The annotation of a field as attrs keeps it: a type that is no attrs class, an
\* attrs class, or a string that is still to be resolved.
TypeObj(n) == [k |-> "type", n |-> n]
SettingsCls(n) == [k |-> "attrs", n |-> n]
Annotation(n) == [k |-> "str", n |-> n]

\* attrs.Attribute: name, type, init
Field(name, type, init) == [name |-> name, type |-> type, init |-> init]

\* attrs.has(field.type)
has(type) == type.k = "attrs"

\* The names every namespace resolves.
Builtins == {"int", "float", "str"}

\* The frames iter_attribs may nest before Python raises RecursionError.
RecursionLimit == 4

\* Evaluating one annotation in the namespace ns, the classes being those of the
\* module: a string names a builtin, a class that ns holds, or nothing.
EvalType(type, classes, ns) ==
    IF type.k # "str" THEN Ok(type)
    ELSE IF type.n \in Builtins THEN Ok(TypeObj(type.n))
    ELSE IF type.n \in ns /\ type.n \in DOMAIN classes THEN Ok(SettingsCls(type.n))
    ELSE Raise("NameError")

RECURSIVE ResolveFields(_, _, _, _)
\* typing.get_type_hints(cls): the annotations of cls in their order; done are the
\* fields with their resolved types.
ResolveFields(fields, classes, ns, done) ==
    IF fields = <<>> THEN [exc |-> "none", name |-> "", fields |-> done]
    ELSE LET r == EvalType(Head(fields).type, classes, ns)
         IN IF r.exc # "none"
            THEN [exc |-> r.exc, name |-> Head(fields).type.n, fields |-> <<>>]
            ELSE ResolveFields(Tail(fields), classes, ns,
                               Append(done, [Head(fields) EXCEPT !.type = r.val]))

\* attrs.resolve_types(cls): the fields of cls, and of cls only, get their resolved
\* types; classes is the module's classes after the call.
resolve_types(cls, classes, ns) ==
    LET r == ResolveFields(classes[cls], classes, ns, <<>>)
    IN [exc |-> r.exc, name |-> r.name,
        classes |-> IF r.exc = "none" THEN [classes EXCEPT ![cls] = r.fields] ELSE classes]

\* A plausible slip: the field of a nested class gets an option of its own, too.
AddNestedAndOuter(result, path, inner) == Append(result, OptionInfo(path)) \o inner

\* What iter_attribs(field.type, prefix + name + ".") adds to result
AddNested(result, path, inner) == result \o inner

RECURSIVE iter_attribs(_, _, _, _, _)
\* iter_attribs(r_cls, prefix) from the field at the head of fields on; depth counts
\* the nested calls, result is the list built so far.
iter_attribs(fields, prefix, classes, depth, result) ==
    IF fields = <<>> THEN Ok(result)
    ELSE LET field == Head(fields)
             path == prefix \o field.name
         IN IF ~field.init THEN iter_attribs(Tail(fields), prefix, classes, depth, result)
            ELSE IF has(field.type)
            THEN IF depth >= RecursionLimit THEN Raise("RecursionError")
                 ELSE LET inner == iter_attribs(classes[field.type.n], path \o <<".">>,
                                                classes, depth + 1, <<>>)
                      IN IF inner.exc # "none" THEN inner
                         ELSE iter_attribs(Tail(fields), prefix, classes, depth,
                                           AddNested(result, path, inner.val))
            ELSE iter_attribs(Tail(fields), prefix, classes, depth,
                              Append(result, OptionInfo(path)))

\* deep_options(cls) for the classes of a module whose namespace is ns: the
\* outcome, the name a NameError names, and the classes after resolve_types.
deep_options(cls, classes, ns) ==
    LET r == resolve_types(cls, classes, ns)
    IN IF r.exc # "none"
       THEN [exc |-> r.exc, val |-> <<>>, name |-> r.name, classes |-> r.classes]
       ELSE LET o == iter_attribs(r.classes[cls], <<>>, r.classes, 1, <<>>)
            IN [exc |-> o.exc, val |-> IF o.exc = "none" THEN o.val ELSE <<>>,
                name |-> "", classes |-> r.classes]

\* Attrs.fields_to_parent_classes(cls): field name -> class
fields_to_parent_classes(cls, classes) ==
    [name \in {classes[cls][i].name : i \in 1..Len(classes[cls])} |->
        LET field == CHOOSE f \in {classes[cls][i] : i \in 1..Len(classes[cls])} :
                        f.name = name
        IN IF has(field.type) THEN field.type.n ELSE cls]

\* A plausible slip: the options are grouped by the class alone.
KeyByClass(o, cls, classes) ==
    << <<>>, fields_to_parent_classes(cls, classes)[Head(Split(o.path, "."))] >>

\* keyfn(o) of group_options: (prefix, group class)
keyfn(o, cls, classes) ==
    LET parts == Split(o.path, ".")
    IN << IF Len(parts) > 1 THEN Head(parts) ELSE <<>>,
          fields_to_parent_classes(cls, classes)[Head(parts)] >>

RECURSIVE GroupBy(_, _, _, _)
\* itertools.groupby(options, key=keyfn) as the list of (key, options of the run)
GroupBy(opts, cls, classes, groups) ==
    IF opts = <<>> THEN groups
    ELSE LET key == keyfn(Head(opts), cls, classes)
             n == Len(groups)
         IN IF n > 0 /\ groups[n][1] = key
            THEN GroupBy(Tail(opts), cls, classes,
                         [groups EXCEPT ![n] = <<key, Append(groups[n][2], Head(opts))>>])
            ELSE GroupBy(Tail(opts), cls, classes, Append(groups, <<key, <<Head(opts)>> >>))

\* group_options(cls, options): the list of (group class, options)
group_options(cls, opts, classes) ==
    LET grouper == GroupBy(opts, cls, classes, <<>>)
    IN [i \in 1..Len(grouper) |-> <<grouper[i][1][2], grouper[i][2]>>]

\* The most fields the class Settings has.
MaxFields == 3

\* class GrandChild: x: int
\* class Child: x: float; y: GrandChild
\* class Nested1: a: int = 0; nb1: int = option(init=False)
\* class Lazy: x: int; y: "GrandChild"
\* class Broken: name: str; parent: "Settings"
NestedClasses ==
    [c \in {"GrandChild", "Child", "Nested1", "Lazy", "Broken"} |->
        CASE c = "GrandChild" -> << Field(K_x, TypeObj("int"), TRUE) >>
          [] c = "Child" -> << Field(K_x, TypeObj("float"), TRUE),
                               Field(K_y, SettingsCls("GrandChild"), TRUE) >>
          [] c = "Nested1" -> << Field(K_a, TypeObj("int"), TRUE),
                                 Field(<<"n", "b", "1">>, TypeObj("int"), FALSE) >>
          [] c = "Lazy" -> << Field(K_x, TypeObj("int"), TRUE),
                              Field(K_y, Annotation("GrandChild"), TRUE) >>
          [] c = "Broken" -> << Field(<<"n", "a", "m", "e">>, TypeObj("str"), TRUE),
                                Field(<<"p", "a", "r", "e", "n", "t">>,
                                      Annotation("Settings"), TRUE) >>]

\* The fields the class Settings is made of: scalars, one with init=False, nested
\* classes (one of them twice, one with init=False), string annotations of a
\* class, of Settings itself and of an undefined name, and nested classes that
\* hold string annotations.
SettingsFieldPool ==
    { Field(K_x, TypeObj("str"), TRUE), Field(K_z, TypeObj("str"), TRUE),
      Field(<<"n", "a">>, TypeObj("int"), FALSE),
      Field(K_y, SettingsCls("Child"), TRUE),
      Field(<<"n", "1">>, SettingsCls("Nested1"), TRUE),
      Field(<<"n", "2">>, SettingsCls("Nested1"), TRUE),
      Field(<<"h">>, SettingsCls("Child"), FALSE),
      Field(K_c, Annotation("Child"), TRUE),
      Field(<<"s">>, Annotation("Settings"), TRUE),
      Field(<<"u">>, Annotation("X"), TRUE),
      Field(<<"l">>, SettingsCls("Lazy"), TRUE),
      Field(K_b, SettingsCls("Broken"), TRUE) }

\* The modules: the nested classes and a class Settings of up to MaxFields fields
\* with different names.
Modules ==
    { [c \in DOMAIN NestedClasses \cup {"Settings"} |->
          IF c = "Settings" THEN fields ELSE NestedClasses[c]] :
      fields \in { sq \in SeqsTo(SettingsFieldPool, MaxFields) :
                     \A i, j \in 1..Len(sq) : i # j => sq[i].name # sq[j].name } }

\* The classes are local to a function (their names resolve nowhere) or at the top
\* of a module (the namespace holds all of them).
InitOptions ==
    /\ pc = "start"
    /\ settings \in Modules
    /\ environ \in {{}, DOMAIN NestedClasses \cup {"Settings"}}
    /\ options = <<>>
    /\ load_out = Idle
    /\ merged_settings = Idle
    /\ fsys = Idle /\ config_files = Idle
    /\ conv_in = Idle /\ conv_out = Idle

\* options = deep_options(Settings)
DeepOptions ==
    /\ pc = "start"
    /\ \E r \in {deep_options("Settings", settings, environ)} :
          /\ options' = r.val
          /\ load_out' = [op |-> "deep_options", exc |-> r.exc, name |-> r.name,
                          classes |-> r.classes, groups |-> <<>>]
          /\ pc' = IF r.exc = "none" THEN "listed" ELSE "failed"
    /\ UNCHANGED <<settings, merged_settings, fsys, config_files, environ, conv_in, conv_out>>

\* group_options(Settings, options)
GroupOptions ==
    /\ pc = "listed"
    /\ load_out' = [load_out EXCEPT !.op = "group_options",
                       !.groups = group_options("Settings", options, load_out.classes)]
    /\ pc' = "grouped"
    /\ UNCHANGED <<options, settings, merged_settings, fsys, config_files, environ,
                   conv_in, conv_out>>

NextOptions == DeepOptions \/ GroupOptions

SpecOptions == InitOptions /\ [][NextOptions]_vars

\* What an annotation of the module denotes: a string denotes the class or the
\* builtin of its name, if there is one.
Meaning(type) ==
    IF type.k # "str" THEN type
    ELSE IF type.n \in DOMAIN settings THEN SettingsCls(type.n)
    ELSE IF type.n \in Builtins THEN TypeObj(type.n)
    ELSE [k |-> "undefined", n |-> type.n]

FieldsOf(c) == {settings[c][i] : i \in 1..Len(settings[c])}

\* The classes the fields of c are annotated with.
Refers(c) == {Meaning(f.type).n : f \in {g \in FieldsOf(c) : Meaning(g.type).k = "attrs"}}

RECURSIVE Closure(_, _)
Closure(S, n) == IF n = 0 THEN S ELSE Closure(S \cup UNION {Refers(c) : c \in S}, n - 1)

\* The classes reached from c over one or more fields.
Reach(c) == Closure(Refers(c), Cardinality(DOMAIN settings))

\* The names of the string annotations, in Settings and the classes it reaches,
\* that the namespace does not resolve or that lead back to their own class.
UnresolvedNames ==
    { f.type.n : f \in UNION { {g \in FieldsOf(c) :
            /\ g.type.k = "str"
            /\ \/ g.type.n \notin Builtins /\ g.type.n \notin (environ \cap DOMAIN settings)
               \/ g.type.n \in DOMAIN settings /\ c \in {g.type.n} \cup Reach(g.type.n)} :
        c \in {"Settings"} \cup Reach("Settings") } }

RECURSIVE LeafPaths(_, _)
\* The paths of the leaf fields with init under the fields given, depth first.
LeafPaths(fields, prefix) ==
    IF fields = <<>> THEN <<>>
    ELSE LET f == Head(fields)
             here == IF ~f.init THEN <<>>
                     ELSE IF Meaning(f.type).k = "attrs"
                     THEN LeafPaths(settings[Meaning(f.type).n], prefix \o f.name \o <<".">>)
                     ELSE << prefix \o f.name >>
         IN here \o LeafPaths(Tail(fields), prefix)

\* C17: deep_options returns one option per leaf field with init, in the order of
\* declaration and depth first, with the path outer.inner under a field whose type
\* is a settings class and no option for that field itself.
C17_OneOptionPerLeaf ==
    (pc = "listed" /\ UnresolvedNames = {}) =>
        [i \in 1..Len(options) |-> options[i].path] = LeafPaths(settings["Settings"], <<>>)

\* C18: if an annotation of the settings class or of a class nested in it is an
\* undefined name or a string that refers back to its own class, deep_options
\* raises NameError naming such a name and returns no option.
C18_UnresolvedIsNameError ==
    (pc \in {"listed", "failed"} /\ UnresolvedNames # {}) =>
        /\ pc = "failed"
        /\ load_out.exc = "NameError"
        /\ load_out.name \in UnresolvedNames
        /\ options = <<>>

\* p is q cut before one of its dots.
DottedPrefix(p, q) ==
    Len(p) < Len(q) /\ SubSeq(q, 1, Len(p)) = p /\ q[Len(p) + 1] = "."

\* C19: the paths deep_options returns differ from each other, and none of them is
\* another one cut before a dot.
C19_PathsPrefixFree ==
    pc \in {"listed", "grouped"} =>
        \A i, j \in 1..Len(options) :
            i # j => /\ options[i].path # options[j].path
                     /\ ~DottedPrefix(options[i].path, options[j].path)

\* Settings: x: str; y: Child gave the options x, y.x and y.y.x.
C19_Witness ==
    /\ pc = "listed"
    /\ [i \in 1..Len(options) |-> options[i].path]
          = << K_x, K_y \o <<".">> \o K_x, K_y \o <<".">> \o K_y \o <<".">> \o K_x >>

\* The top-level attribute an option lies under, <<>> for an option of Settings
\* itself.
AttributeOf(o) == IF Len(Split(o.path, ".")) > 1 THEN Head(Split(o.path, ".")) ELSE <<>>

\* The class a group of the options under attr is labelled with.
LabelOf(attr) ==
    IF attr = <<>> THEN "Settings"
    ELSE Meaning((CHOOSE f \in FieldsOf("Settings") : f.name = attr).type).n

RECURSIVE Flatten(_)
Flatten(groups) == IF groups = <<>> THEN <<>> ELSE Head(groups)[2] \o Flatten(Tail(groups))

\* C20: group_options cuts the options into consecutive runs, nothing dropped or
\* moved: a run holds the options under one top-level attribute and is labelled
\* with the nested class of that attribute, or it holds consecutive options of the
\* settings class itself and is labelled with that class; neighbouring runs differ
\* in their attribute, so a class used by two attributes gives two groups.
C20_GroupsAreRuns ==
    pc = "grouped" =>
        LET groups == load_out.groups
        IN /\ Flatten(groups) = options
           /\ \A i \in 1..Len(groups) :
                 /\ groups[i][2] # <<>>
                 /\ \A k \in 1..Len(groups[i][2]) :
                       /\ AttributeOf(groups[i][2][k]) = AttributeOf(groups[i][2][1])
                       /\ groups[i][1] = LabelOf(AttributeOf(groups[i][2][k]))
           /\ \A i \in 1..(Len(groups) - 1) :
                 AttributeOf(groups[i][2][1]) # AttributeOf(groups[i + 1][2][1])

\* Settings: n1: Nested1; x: str; n2: Nested1 gave three groups, two of them
\* labelled Nested1.
C20_Witness ==
    /\ pc = "grouped"
    /\ Len(load_out.groups) = 3
    /\ load_out.groups[1][1] = "Nested1" /\ load_out.groups[3][1] = "Nested1"
    /\ load_out.groups[2][1] = "Settings"

(***************************************************************************)
(* dict_utils.py: update_settings and flat2nested, applied to the outcome   *)
(* of merge_settings                                                        *)
(***************************************************************************)

\* A plausible slip: the override is looked up and then not used.
OverriddenNever(value, r) == value

\* try: value = get_path(settings, path) / except KeyError: pass
Overridden(value, r) == IF r.exc = "none" THEN r.val ELSE value

RECURSIVE UpdateItems(_, _, _)
\* The loop of update_settings over merged_settings.items().
UpdateItems(items, overrides, updated) ==
    IF items = <<>> THEN Ok(updated)
    ELSE LET path == Head(items)[1]
             loaded == Head(items)[2]
             r == get_path(overrides, path)
         IN IF r.exc \notin {"none", "KeyError"} THEN r
            ELSE UpdateItems(Tail(items), overrides,
                             DictSet(updated, path,
                                     LoadedValue(Overridden(loaded.value, r), loaded.meta)))

RECURSIVE TopLevelAdded(_, _)
\* A plausible slip: dict.update semantics, the keys of the overrides are added.
TopLevelAdded(updated, items) ==
    IF items = <<>> THEN updated
    ELSE TopLevelAdded(
            IF DictHas(updated, Head(items)[1]) THEN updated
            ELSE DictSet(updated, Head(items)[1],
                         LoadedValue(Head(items)[2], LoaderMeta(<<>>))),
            Tail(items))

UpdateAdding(merged, overrides) ==
    LET r == UpdateItems(merged.v, overrides, EmptyDict)
    IN IF r.exc # "none" THEN r ELSE Ok(TopLevelAdded(r.val, overrides.v))

update_settings(merged, overrides) == UpdateItems(merged.v, overrides, EmptyDict)

\* A plausible slip: the parent dict is made anew for every path.
SetPathFresh(dct, path, val) ==
    LET parts == Split(path, ".")
    IN IF Len(parts) = 1 THEN Ok(DictSet(dct, path, val))
       ELSE LET r == SetParts(EmptyDict, Tail(parts), val)
            IN IF r.exc # "none" THEN r ELSE Ok(DictSet(dct, Head(parts), r.val))

\* settings[path] = loaded_value.value through set_path, as flat2nested calls it
SetLoaded(dct, path, val) == set_path(dct, path, val)

RECURSIVE NestItems(_, _)
\* The loop of flat2nested over merged_settings.items().
NestItems(items, nested) ==
    IF items = <<>> THEN Ok(nested)
    ELSE LET r == SetLoaded(nested, Head(items)[1], Head(items)[2].value)
         IN IF r.exc # "none" THEN r ELSE NestItems(Tail(items), r.val)

flat2nested(merged) == NestItems(merged.v, EmptyDict)

\* The settings dicts update_settings is given: values at option paths, at paths
\* of options the merge holds no entry for, and at "z", the key of no option.
Overrides ==
    { EmptyDict,
      PyDict(<< <<K_a, PyInt(7)>> >>),
      PyDict(<< <<K_a, DictQ>>, <<K_c, PyInt(7)>> >>),
      PyDict(<< <<K_b, PyDict(<< <<K_x, PyInt(8)>> >>)>> >>),
      PyDict(<< <<K_b, PyDict(<< <<K_y, PyInt(8)>>, <<K_x, PyInt(1)>> >>)>>, <<K_z, PyInt(9)>> >>),
      PyDict(<< <<K_z, PyInt(9)>>, <<K_a, PyInt(1)>> >>) }

UpdateSettings ==
    /\ pc = "merged"
    /\ merged_settings.exc = "none"
    /\ \E overrides \in Overrides :
          load_out' = [op |-> "update_settings", overrides |-> overrides,
                       out |-> update_settings(merged_settings.val, overrides)]
    /\ pc' = "updated"
    /\ UNCHANGED <<options, settings, merged_settings, fsys, config_files, environ,
                   conv_in, conv_out>>

Flat2Nested ==
    /\ pc = "merged"
    /\ merged_settings.exc = "none"
    /\ load_out' = [op |-> "flat2nested", overrides |-> EmptyDict,
                    out |-> flat2nested(merged_settings.val)]
    /\ pc' = "nested"
    /\ UNCHANGED <<options, settings, merged_settings, fsys, config_files, environ,
                   conv_in, conv_out>>

NextDicts == MergeSettings \/ UpdateSettings \/ Flat2Nested

SpecDicts == InitMerge /\ [][NextDicts]_vars

\* C21: update_settings returns a mapping in which every entry whose path the
\* overrides hold has the override as its value and the loader meta of the
\* original entry, every other entry equals the original one, and the mapping it
\* was given is what merge_settings returned.
C21_OverridesKeepMeta ==
    pc = "updated" =>
        /\ load_out.out.exc = "none"
        /\ merged_settings = merge_settings(options, settings)
        /\ \A p \in DictKeys(merged_settings.val) :
              LET before == DictGet(merged_settings.val, p)
                  given == get_path(load_out.overrides, p)
              IN /\ DictHas(load_out.out.val, p)
                 /\ DictGet(load_out.out.val, p).meta = before.meta
                 /\ DictGet(load_out.out.val, p).value =
                       (IF given.exc = "none" THEN given.val ELSE before.value)

\* "b.x" came from loader l1 with the value 1 and was overridden with 8.
C21_Witness ==
    /\ pc = "updated"
    /\ DictHas(merged_settings.val, P_bx)
    /\ DictGet(merged_settings.val, P_bx) = LoadedValue(PyInt(1), MetaOf(1))
    /\ DictGet(load_out.out.val, P_bx) = LoadedValue(PyInt(8), MetaOf(1))
    /\ DictHas(merged_settings.val, P_a)
    /\ DictGet(load_out.out.val, P_a) = DictGet(merged_settings.val, P_a)

\* C29: the mapping update_settings returns has exactly the keys of the mapping
\* it was given: an override at a path the merge has no entry for adds nothing,
\* and no entry is dropped.
C29_KeySetKept ==
    pc = "updated" =>
        /\ load_out.out.exc = "none"
        /\ DictKeys(load_out.out.val) = DictKeys(merged_settings.val)
        /\ Len(load_out.out.val.v) = Len(merged_settings.val.v)

\* The overrides hold "b.y" and "z", the merge holds "b.x" only under "b".
C29_Witness ==
    /\ pc = "updated"
    /\ DictHas(load_out.overrides, K_z)
    /\ get_path(load_out.overrides, P_by).exc = "none"
    /\ DictHas(merged_settings.val, P_bx)
    /\ ~DictHas(merged_settings.val, P_by)
    /\ ~DictHas(load_out.out.val, P_by)
    /\ ~DictHas(load_out.out.val, K_z)

RECURSIVE Covered(_, _, _)
\* Every entry of the items is the value of one of the keys or a dict that has
\* entries, all of them covered.
Covered(items, prefix, keys) ==
    \A i \in 1..Len(items) :
        LET path == prefix \o items[i][1]
        IN \/ path \in keys
           \/ /\ IsDict(items[i][2]) /\ items[i][2].v # <<>>
              /\ Covered(items[i][2].v, path \o <<".">>, keys)

\* C22: in the dict flat2nested builds, get_path at every key of the merged
\* settings gives the merged value of that key, and the dict holds nothing that is
\* not the value of a key; with "b.x" won by one loader and "b.y" by another, both
\* lie under "b".
C22_NestedHoldsEveryKey ==
    pc = "nested" =>
        /\ load_out.out.exc = "none"
        /\ \A p \in DictKeys(merged_settings.val) :
              get_path(load_out.out.val, p) = Ok(DictGet(merged_settings.val, p).value)
        /\ Covered(load_out.out.val.v, <<>>, DictKeys(merged_settings.val))

\* "b.x" was won by loader l1 and "b.y" by loader l2.
C22_Witness ==
    /\ pc = "nested"
    /\ DictHas(merged_settings.val, P_bx) /\ DictHas(merged_settings.val, P_by)
    /\ DictGet(merged_settings.val, P_bx).meta = MetaOf(1)
    /\ DictGet(merged_settings.val, P_by).meta = MetaOf(2)
    /\ get_path(load_out.out.val, K_b) =
          Ok(PyDict(<< <<K_x, PyInt(1)>>, <<K_y, PyInt(3)>> >>))

(***************************************************************************)
(* dict_utils.py: get_path and set_path on their own                        *)
(***************************************************************************)

K_d == <<"d">>
K_e == <<"e">>
P_bc == <<"b", ".", "c">>
P_bd == <<"b", ".", "d">>
P_bde == <<"b", ".", "d", ".", "e">>
P_ab == <<"a", ".", "b">>
P_cde == <<"c", ".", "d", ".", "e">>

\* dicts as in test_get_path and test_set_path
PathDicts ==
    LET de == PyDict(<< <<K_e, PyInt(3)>> >>)
    IN { EmptyDict,
         PyDict(<< <<K_a, PyInt(1)>> >>),
         PyDict(<< <<K_b, EmptyDict>> >>),
         PyDict(<< <<K_a, PyInt(1)>>, <<K_b, PyDict(<< <<K_c, PyInt(2)>> >>)>> >>),
         PyDict(<< <<K_b, PyDict(<< <<K_d, de>> >>)>> >>),
         PyDict(<< <<K_a, PyInt(1)>>,
                   <<K_b, PyDict(<< <<K_c, PyInt(2)>>, <<K_d, de>> >>)>> >>),
         PyDict(<< <<K_c, PyDict(<< <<K_d, PyInt(5)>> >>)>>, <<K_x, PyInt(6)>> >>) }

PathNames == {P_a, K_b, P_bc, P_bd, P_bde, K_x, P_bx, P_ab, P_cde}

PathValues == {PyInt(0), PyInt(3), PyDict(<< <<K_e, PyInt(4)>> >>)}

InitPath ==
    /\ pc = "start"
    /\ settings \in PathDicts
    /\ options = Idle /\ merged_settings = Idle
    /\ fsys = Idle /\ config_files = Idle /\ environ = Idle /\ load_out = Idle
    /\ conv_in = Idle /\ conv_out = Idle

GetPath ==
    /\ pc = "start"
    /\ \E path \in PathNames :
          load_out' = [op |-> "get_path", path |-> path, val |-> PyNone,
                       out |-> get_path(settings, path)]
    /\ pc' = "got"
    /\ UNCHANGED <<options, settings, merged_settings, fsys, config_files, environ,
                   conv_in, conv_out>>

\* set_path changes the dict it is given; settings stays the dict as it was before
\* the call and load_out.out is the dict afterwards.
SetPath ==
    /\ pc = "start"
    /\ \E path \in PathNames, val \in PathValues :
          load_out' = [op |-> "set_path", path |-> path, val |-> val,
                       out |-> set_path(settings, path, val)]
    /\ pc' = "set"
    /\ UNCHANGED <<options, settings, merged_settings, fsys, config_files, environ,
                   conv_in, conv_out>>

NextPath == GetPath \/ SetPath

SpecPath == InitPath /\ [][NextPath]_vars

RECURSIVE DictsAlong(_, _)
\* Every value that exists on the way to the last segment is a dict.
DictsAlong(dct, parts) ==
    /\ IsDict(dct)
    /\ \/ Len(parts) = 1
       \/ ~DictHas(dct, Head(parts))
       \/ DictsAlong(DictGet(dct, Head(parts)), Tail(parts))

RECURSIVE FirstMissing(_, _, _)
\* The index of the first segment that is no key of the dict reached, 0 if none.
FirstMissing(dct, parts, k) ==
    IF k > Len(parts) THEN 0
    ELSE IF ~DictHas(dct, parts[k]) THEN k
    ELSE FirstMissing(DictGet(dct, parts[k]), parts, k + 1)

RECURSIVE AllPaths(_, _)
\* The dotted paths of all entries of a dict, those of dicts inside it included.
AllPaths(items, prefix) ==
    UNION { LET path == prefix \o items[i][1]
            IN {path} \cup (IF IsDict(items[i][2])
                            THEN AllPaths(items[i][2].v, path \o <<".">>) ELSE {}) :
            i \in 1..Len(items) }

\* p is q or p is q cut before one of its dots.
AtOrAbove(p, q) == p = q \/ DottedPrefix(p, q)

WalkedGet == pc = "got" /\ DictsAlong(settings, Split(load_out.path, "."))
WalkedSet == pc = "set" /\ DictsAlong(settings, Split(load_out.path, "."))

GetPathRaisesKeyError ==
    WalkedGet =>
        IF FirstMissing(settings, Split(load_out.path, "."), 1) = 0
        THEN load_out.out.exc = "none"
        ELSE load_out.out.exc = "KeyError"

\* C23 as stated: set_path makes get_path(d, p) return v, creating the dicts that
\* are missing on the way, and the value at every path that existed before and is
\* neither p nor below p is the same afterwards; get_path raises KeyError when a
\* segment is missing.
C23_EveryOtherPathKept ==
    /\ GetPathRaisesKeyError
    /\ WalkedSet =>
          /\ load_out.out.exc = "none"
          /\ get_path(load_out.out.val, load_out.path) = Ok(load_out.val)
          /\ \A q \in AllPaths(settings.v, <<>>) :
                ~AtOrAbove(load_out.path, q) =>
                    get_path(load_out.out.val, q) = get_path(settings, q)

\* C23, amended: as above, for every path that existed before and is neither p,
\* nor below p, nor above p; a dict above p keeps its keys and gains at most the
\* next segment of p.
C23_PathsOffTheWayKept ==
    /\ GetPathRaisesKeyError
    /\ WalkedSet =>
          /\ load_out.out.exc = "none"
          /\ get_path(load_out.out.val, load_out.path) = Ok(load_out.val)
          /\ \A q \in AllPaths(settings.v, <<>>) :
                IF DottedPrefix(q, load_out.path)
                THEN /\ get_path(load_out.out.val, q).exc = "none"
                     /\ DictKeys(get_path(settings, q).val)
                           \subseteq DictKeys(get_path(load_out.out.val, q).val)
                     /\ Cardinality(DictKeys(get_path(load_out.out.val, q).val))
                           <= Cardinality(DictKeys(get_path(settings, q).val)) + 1
                ELSE ~AtOrAbove(load_out.path, q) =>
                        get_path(load_out.out.val, q) = get_path(settings, q)

\* set_path(d, "b.x", 0) on d = {a: 1, b: {c: 2}}: "b.c" is kept, "b" gained "x".
C23_Witness ==
    /\ pc = "set" /\ load_out.path = P_bx /\ load_out.val = PyInt(0)
    /\ get_path(settings, P_bc) = Ok(PyInt(2))
    /\ get_path(settings, P_bx).exc = "KeyError"
    /\ get_path(load_out.out.val, P_bc) = Ok(PyInt(2))
    /\ get_path(load_out.out.val, P_bx) = Ok(PyInt(0))

(***************************************************************************)
(* The log records of FileLoader._get_config_filenames                      *)
(***************************************************************************)

RECURSIVE RecordsFrom(_)
\* The records the candidates from the i-th on call for: DEBUG for a file that
\* exists, INFO for a missing optional file of config_files, WARNING for one of
\* T_SETTINGS, ERROR for a missing mandatory file and nothing after it.
RecordsFrom(i) ==
    IF i > Len(Candidates) THEN <<>>
    ELSE LET c == Candidates[i]
         IN IF c = <<>> \/ NameOf(c) = <<>> THEN RecordsFrom(i + 1)
            ELSE IF ExistingFile(c) THEN << <<"DEBUG", NameOf(c)>> >> \o RecordsFrom(i + 1)
            ELSE IF IsMandatory(c) THEN << <<"ERROR", NameOf(c)>> >>
            ELSE << << IF i > Len(config_files) THEN "WARNING" ELSE "INFO", NameOf(c) >> >>
                 \o RecordsFrom(i + 1)

\* C24: after the DEBUG record about the environment variable, the file loader
\* logs one record per candidate, in the order of the candidates: DEBUG for a file
\* that exists, INFO for a missing optional file of the explicit list, WARNING
\* for a missing optional file of T_SETTINGS, ERROR for a missing mandatory file,
\* which is the last record and is followed by the raise; nothing is raised
\* otherwise.
C24_LogLevelsByCase ==
    (pc = "done" /\ load_out.op = "FileLoader") =>
        /\ load_out.log # <<>> /\ load_out.log[1].level = "DEBUG"
        /\ [i \in 1..(Len(load_out.log) - 1) |->
               <<load_out.log[i + 1].level, load_out.log[i + 1].arg>>] = RecordsFrom(1)
        /\ load_out.exc = "FileNotFoundError"
              <=> load_out.log[Len(load_out.log)].level = "ERROR"
        /\ load_out.exc \in {"none", "FileNotFoundError"}

(***************************************************************************)
(* Files that exist and cannot be parsed                                    *)
(***************************************************************************)

Garbled(fname) == fsys[fname].state = "garbled"

\* C25: when no mandatory file is missing and a file that exists cannot be
\* parsed, the file loader fails, whether the file was named as optional or as
\* mandatory: with the config-file-load error once the files before it are
\* loaded, or with the invalid-options error of a file before it.  The files
\* before it have been parsed and the file itself has not.  If every existing
\* file can be parsed there is no config-file-load error, missing optional files
\* or not.
C25_UnparsableAborts ==
    (pc = "done" /\ load_out.op = "FileLoader" /\ ~MissingMandatory) =>
        LET bad == {i \in 1..Len(FileSources) : Garbled(FileSources[i])}
        IN IF bad = {} THEN load_out.exc # "ConfigFileLoadError"
           ELSE LET first == CHOOSE i \in bad : \A j \in bad : i <= j
                IN /\ load_out.exc \in {"ConfigFileLoadError", "InvalidOptionsError"}
                   /\ (\A j \in 1..(first - 1) :
                          UnknownIn(SectionOf(FileSources[j]).v, <<>>) = {})
                        => /\ load_out.exc = "ConfigFileLoadError"
                           /\ load_out.parsed = SubSeq(FileSources, 1, first - 1)

\* config_files = [g, f], both optional: g is missing and f is no valid TOML.
C25_Witness ==
    /\ pc = "done" /\ load_out.op = "FileLoader"
    /\ config_files = <<F_g, F_f>> /\ SettingsVar \notin DOMAIN environ
    /\ fsys[F_g].state = "missing" /\ Garbled(F_f)
    /\ load_out.exc = "ConfigFileLoadError"

(***************************************************************************)
(* _core.py: update_settings(settings, path, value) on a settings instance  *)
(***************************************************************************)

\* An instance of an attrs class: its class and its attributes in field order.
Instance(cls, items) == [t |-> "instance", cls |-> cls, v |-> items]

IsInstance(x) == x.t = "instance"

\* getattr(obj, name); the names used are attributes of no str, int or dict.
getattr(obj, name) ==
    IF IsInstance(obj) /\ \E i \in 1..Len(obj.v) : obj.v[i][1] = name
    THEN Ok(obj.v[CHOOSE i \in 1..Len(obj.v) : obj.v[i][1] = name][2])
    ELSE Raise("AttributeError")

RECURSIVE GetAttrs(_, _)
\* for name in path.split("."): current = getattr(current, name)
GetAttrs(current, names) ==
    IF names = <<>> THEN Ok(current)
    ELSE LET r == getattr(current, Head(names))
         IN IF r.exc # "none" THEN r ELSE GetAttrs(r.val, Tail(names))

RECURSIVE asdict(_)
\* attr.asdict(inst): the instance as a dict, instances inside it as dicts too.
asdict(inst) ==
    PyDict([i \in 1..Len(inst.v) |->
               <<inst.v[i][1],
                 IF IsInstance(inst.v[i][2]) THEN asdict(inst.v[i][2]) ELSE inst.v[i][2]>>])

\* type(settings)(**settings_dict): the classes are made with attr.define and no
\* converters, so every attribute is the keyword argument as it is.
Construct(cls, settings_dict) == Instance(cls, settings_dict.v)

core_update_settings(inst, path, value) ==
    LET current == GetAttrs(inst, Split(path, "."))
    IN IF current.exc # "none" THEN Raise("AttributeError")
       ELSE LET r == set_path(asdict(inst), path, value)
            IN IF r.exc # "none" THEN r ELSE Ok(Construct(inst.cls, r.val))

K_name == <<"n", "a", "m", "e">>
K_n == <<"n">>
K_nope == <<"n", "o", "p", "e">>
P_host_name == K_host \o <<".">> \o K_name
P_host_nope == K_host \o <<".">> \o K_nope
P_url_x == K_url \o <<".">> \o K_x

HostInstances ==
    { Instance("Host", << <<K_name, PyStr(<<"h">>)>>, <<K_port, PyInt(p)>> >>) : p \in {1, 2} }

\* class Flat: url: str; n: int        class Host: name: str; port: int
\* class Settings: url: str; host: Host
SettingsInstances ==
    { Instance("Flat", << <<K_url, PyStr(u)>>, <<K_n, PyInt(n)>> >>) :
        u \in {<<"a">>, <<"b">>}, n \in {1, 2} }
    \cup { Instance("Settings", << <<K_url, PyStr(u)>>, <<K_host, h>> >>) :
             u \in {<<"a">>, <<"b">>}, h \in HostInstances }

UpdatePaths == {K_url, K_n, K_host, P_host_name, P_host_port, K_nope, P_host_nope, P_url_x}

UpdateValues == {PyInt(9), PyStr(<<"z">>)} \cup HostInstances

InitInstance ==
    /\ pc = "start"
    /\ settings \in SettingsInstances
    /\ options = Idle /\ merged_settings = Idle
    /\ fsys = Idle /\ config_files = Idle /\ environ = Idle /\ load_out = Idle
    /\ conv_in = Idle /\ conv_out = Idle

\* update_settings(settings, path, value); settings is read only.
CoreUpdateSettings ==
    /\ pc = "start"
    /\ \E path \in UpdatePaths, value \in UpdateValues :
          load_out' = [op |-> "update_settings", path |-> path, val |-> value,
                       out |-> core_update_settings(settings, path, value)]
    /\ pc' = "replaced"
    /\ UNCHANGED <<options, settings, merged_settings, fsys, config_files, environ,
                   conv_in, conv_out>>

NextInstance == CoreUpdateSettings

SpecInstance == InitInstance /\ [][NextInstance]_vars

RECURSIVE AttrPaths(_, _)
\* The dotted paths of the attributes of an instance and of the instances in it.
AttrPaths(inst, prefix) ==
    UNION { LET path == prefix \o inst.v[i][1]
            IN {path} \cup (IF IsInstance(inst.v[i][2])
                            THEN AttrPaths(inst.v[i][2], path \o <<".">>) ELSE {}) :
            i \in 1..Len(inst.v) }

\* C26: for a path that names an attribute, update_settings returns an instance
\* of the same class that has the value at the path and, at every other attribute
\* path of the original that is neither above nor below the path, what the
\* original has there, nested settings instances included.  For any other path
\* it raises AttributeError.
C26_OnlyThePathChanges ==
    pc = "replaced" =>
        IF load_out.path \in AttrPaths(settings, <<>>)
        THEN /\ load_out.out.exc = "none"
             /\ IsInstance(load_out.out.val) /\ load_out.out.val.cls = settings.cls
             /\ GetAttrs(load_out.out.val, Split(load_out.path, ".")) = Ok(load_out.val)
             /\ \A q \in AttrPaths(settings, <<>>) :
                   (~AtOrAbove(q, load_out.path) /\ ~AtOrAbove(load_out.path, q)) =>
                       GetAttrs(load_out.out.val, Split(q, "."))
                          = GetAttrs(settings, Split(q, "."))
        ELSE load_out.out.exc = "AttributeError"

(***************************************************************************)
(* Two calls of FileLoader.__call__ whose steps interleave.  Each call has  *)
(* its locals (paths, merged_settings, the exception it ended with); the    *)
(* file system, the environment and the loader's files are only read.       *)
(***************************************************************************)

Calls == {1, 2}

\* A plausible slip: merged_settings is one dict kept by the loader, so that every
\* call merges into the dict of the first call.
MergedOfLoader(locals, p) == locals[1].merged

\* merged_settings: SettingsDict = {} is a local of the call
MergedOf(locals, p) == locals[p].merged

ConcurrentFileLists ==
    { <<>>, <<F_f>>, <<F_f, F_g>>, <<F_g, F_f>>, <<Mandatory(F_g), F_f>> }

ConcurrentFileStates ==
    { [state |-> "missing", doc |-> PyNone], [state |-> "garbled", doc |-> PyNone],
      [state |-> "ok", doc |-> Doc1], [state |-> "ok", doc |-> Doc2] }

InitConcurrent ==
    /\ pc = [p \in Calls |-> "start"]
    /\ options = SettingsFields
    /\ fsys \in [{F_f, F_g} -> ConcurrentFileStates]
    /\ config_files \in [Calls -> ConcurrentFileLists]
    /\ environ \in {<<>>, [n \in {SettingsVar} |-> F_g]}
    /\ load_out = [p \in Calls |-> [exc |-> "none", paths |-> <<>>, merged |-> EmptyDict]]
    /\ settings = Idle /\ merged_settings = Idle
    /\ conv_in = Idle /\ conv_out = Idle

\* paths = self._get_config_filenames(self.files, self.env_var); merged_settings = {}
CallResolve(p) ==
    /\ pc[p] = "start"
    /\ \E g \in {FileLoader_get_config_filenames(config_files[p], SettingsVar, environ, fsys)} :
          /\ load_out' = [load_out EXCEPT ![p] = [exc |-> g.exc, paths |-> g.paths,
                                                  merged |-> EmptyDict]]
          /\ pc' = [pc EXCEPT ![p] = IF g.exc # "none" THEN "done" ELSE "loading"]
    /\ UNCHANGED <<options, settings, merged_settings, fsys, config_files, environ,
                   conv_in, conv_out>>

\* One turn of the loop: settings = self._load_file(path, ...);
\* _merge_dicts(merged_settings, settings)
CallLoadFile(p) ==
    /\ pc[p] = "loading"
    /\ load_out[p].paths # <<>>
    /\ \E r \in {FileLoader_load_file(Head(load_out[p].paths), << <<<<"*">>, AppName>> >>,
                                      options, fsys)} :
          IF r.exc # "none"
          THEN /\ load_out' = [load_out EXCEPT ![p].exc = r.exc]
               /\ pc' = [pc EXCEPT ![p] = "done"]
          ELSE \E m \in {_merge_dicts(MergedOf(load_out, p), r.val)} :
                  /\ load_out' = [load_out EXCEPT ![p].exc = m.exc,
                                                  ![p].merged = m.val,
                                                  ![p].paths = Tail(load_out[p].paths)]
                  /\ pc' = [pc EXCEPT ![p] = IF m.exc # "none" THEN "done" ELSE "loading"]
    /\ UNCHANGED <<options, settings, merged_settings, fsys, config_files, environ,
                   conv_in, conv_out>>

\* return merged_settings
CallReturn(p) ==
    /\ pc[p] = "loading"
    /\ load_out[p].paths = <<>>
    /\ pc' = [pc EXCEPT ![p] = "done"]
    /\ UNCHANGED <<options, settings, merged_settings, fsys, config_files, environ,
                   load_out, conv_in, conv_out>>

NextConcurrent == \E p \in Calls : CallResolve(p) \/ CallLoadFile(p) \/ CallReturn(p)

SpecConcurrent == InitConcurrent /\ [][NextConcurrent]_vars

\* The outcome of the call p when it runs alone.
Alone(p) ==
    FileLoader_call(<< <<<<"*">>, AppName>> >>, config_files[p], SettingsVar, options,
                    environ, fsys)

\* C27: a call that has ended, however its steps were interleaved with those of
\* the other call, has raised or returned what it raises or returns when it runs
\* alone with the same files and environment.
C27_SameAsAlone ==
    \A p \in Calls :
        pc[p] = "done" =>
            /\ load_out[p].exc = Alone(p).exc
            /\ load_out[p].exc = "none" => load_out[p].merged = Alone(p).val

\* Both calls have ended, the steps of the second one lying between those of the
\* first: call 1 merged f and g, call 2 merged g and f.
C27_Witness ==
    /\ pc = [p \in Calls |-> "done"]
    /\ config_files[1] = <<F_f, F_g>> /\ config_files[2] = <<F_g, F_f>>
    /\ fsys[F_f].doc = Doc1 /\ fsys[F_g].doc = Doc2
    /\ load_out[1].exc = "none" /\ load_out[2].exc = "none"
    /\ load_out[1].merged # load_out[2].merged

(***************************************************************************)
(* types.py: Secret                                                         *)
(***************************************************************************)

SECRET_REPR == <<"*", "*", "*", "*", "*", "*", "*">>

\* A plausible slip: the test for a collection is left out, so that every falsy
\* value is shown.
IsCollectionAlways(value) == TRUE

\* isinstance(secret_value, Collection)
IsCollection(value) == value.t \in {"str", "list", "dict"}

\* bool(value)
Truthy(value) ==
    CASE value.t = "NoneType" -> FALSE
      [] value.t \in {"bool", "int", "float"} -> value.v # 0
      [] OTHER -> value.v # <<>>

\* Secret(secret_value)
Secret(secret_value) ==
    [t |-> "Secret", _secret_value |-> secret_value,
     _is_collection |-> IsCollection(secret_value)]

\* What __repr__ and __str__ show: the value if it is an empty collection, the
\* mask otherwise.
Shown(self) ==
    IF ~Truthy(self._secret_value) /\ self._is_collection THEN self._secret_value
    ELSE PyStr(SECRET_REPR)

Secret_repr(self) == <<"S", "e", "c", "r", "e", "t", "(">> \o Repr(Shown(self)) \o <<")">>

Secret_str(self) == StrOf(Shown(self)).val.v

Secret_bool(self) == Truthy(self._secret_value)

get_secret_value(self) == self._secret_value

\* The longest string and the longest list that is wrapped.
MaxSecretLen == 2

SecretValues ==
    {PyNone, PyBool(FALSE), PyBool(TRUE), PyInt(0), PyInt(7), PyFloat(0), PyFloat(15),
     EmptyDict, DictP}
    \cup {PyStr(s) : s \in SeqsTo({"a", "*"}, MaxSecretLen)}
    \cup {PyList(xs) : xs \in SeqsTo({PyInt(0), PyStr(<<>>)}, MaxSecretLen)}

\* Two secrets, to compare what is shown of them.
InitSecret ==
    /\ pc = "start"
    /\ conv_in \in {<<Secret(v), Secret(w)>> : v \in SecretValues, w \in SecretValues}
    /\ conv_out = Idle
    /\ options = Idle /\ settings = Idle /\ merged_settings = Idle
    /\ fsys = Idle /\ config_files = Idle /\ environ = Idle /\ load_out = Idle

SecretRepr ==
    /\ pc = "start"
    /\ conv_out' = <<Secret_repr(conv_in[1]), Secret_repr(conv_in[2])>>
    /\ pc' = "repr"
    /\ UNCHANGED <<options, settings, merged_settings, fsys, config_files, environ,
                   load_out, conv_in>>

SecretStr ==
    /\ pc = "start"
    /\ conv_out' = <<Secret_str(conv_in[1]), Secret_str(conv_in[2])>>
    /\ pc' = "str"
    /\ UNCHANGED <<options, settings, merged_settings, fsys, config_files, environ,
                   load_out, conv_in>>

SecretBool ==
    /\ pc = "start"
    /\ conv_out' = <<Secret_bool(conv_in[1]), Secret_bool(conv_in[2])>>
    /\ pc' = "bool"
    /\ UNCHANGED <<options, settings, merged_settings, fsys, config_files, environ,
                   load_out, conv_in>>

GetSecretValue ==
    /\ pc = "start"
    /\ conv_out' = <<get_secret_value(conv_in[1]), get_secret_value(conv_in[2])>>
    /\ pc' = "value"
    /\ UNCHANGED <<options, settings, merged_settings, fsys, config_files, environ,
                   load_out, conv_in>>

NextSecret == SecretRepr \/ SecretStr \/ SecretBool \/ GetSecretValue

SpecSecret == InitSecret /\ [][NextSecret]_vars

\* An empty str, list or dict.
EmptyCollection(value) == value.t \in {"str", "list", "dict"} /\ value.v = <<>>

\* C28: repr() of two secrets gives the same text, and so does str(), whenever
\* neither of the wrapped values is an empty collection: what is shown does not
\* depend on the value.  get_secret_value() gives the wrapped value.
C28_MaskIndependentOfSecret ==
    /\ (/\ pc \in {"repr", "str"}
        /\ ~EmptyCollection(conv_in[1]._secret_value)
        /\ ~EmptyCollection(conv_in[2]._secret_value)) => conv_out[1] = conv_out[2]
    /\ pc = "value" =>
          \A k \in {1, 2} : conv_out[k] = conv_in[k]._secret_value

\* repr() of Secret('a*') and of Secret(0): both "Secret('*******')".
C28_Witness ==
    /\ pc = "repr"
    /\ conv_in[1]._secret_value = PyStr(<<"a", "*">>)
    /\ conv_in[2]._secret_value = PyInt(0)
    /\ conv_out[1] = <<"S", "e", "c", "r", "e", "t", "(", "'", "*", "*", "*", "*", "*",
                       "*", "*", "'", ")">>
    /\ conv_out[2] = conv_out[1]

(***************************************************************************)
(* One environment variable, one option                                     *)
(***************************************************************************)

\* C30: distinct option paths are read from distinct environment variables, so
\* the result of the environment loader has at most as many options as there are
\* variables set, and with one variable set at most one option.
C30_OneVariableOneOption ==
    pc = "done" =>
        /\ load_out.exc = "none"
        /\ Cardinality(Leaves(load_out.val.v, <<>>)) <= Cardinality(DOMAIN environ)

====
